---- MODULE Spec2Model ----
(***************************************************************************)
(* Model of the sep2_client library: the poll scheduler of Client          *)
(* (client.rs: start_poll / force_poll / cancel_polls over a tokio         *)
(* broadcast channel of capacity 1), the accept loop of                    *)
(* ClientNotifServer::run and the notification router (pubsub.rs), the     *)
(* HTTP operations of Client and the conversion of SepResponse             *)
(* (client.rs), the certificate checks and the builders of the TLS         *)
(* configurations (tls.rs).                                                *)
(***************************************************************************)
EXTENDS Integers, Sequences, FiniteSets, TLC

(***************************************************************************)
(* Bounds of the model.                                                    *)
(***************************************************************************)
\* Separately constructed Clients (each Client::new makes its own channel).
NClients == 2
\* Client handles the host can hold on one channel (the constructed one and clones).
MaxHandles == 2
\* Poll tasks that start_poll can spawn.
MaxTasks == 2
\* Messages a broadcast channel accepts before the model stops sending.
MaxSends == 2
\* TCP connections the listener of the notification server accepts.
MaxConns == 3
\* Characters of a header value.
MaxStrLen == 2
\* Calls of add before run.
MaxAdds == 2
\* Connections with a request in progress at the same time.
MaxReqs == 2
\* Extensions of a certificate.
MaxExts == 5
\* Bits of the integers that stand for i64 and u64.
IntBits == 4
\* The last second the system clock shows.
MaxSys == 2
\* Threads that call update_time_offset.
MaxUpdaters == 2

(***************************************************************************)
(* Program constants.                                                      *)
(***************************************************************************)
\* client.rs:73  const DEFAULT_POLLRATE: Uint32 = Uint32(900)
DEFAULT_POLLRATE == 900
\* client.rs:82  broadcast::channel::<PollTask>(1)
ChannelCapacity == 1
\* hyper::StatusCode, as used in client.rs
OK == 200
CREATED == 201
NO_CONTENT == 204
BAD_REQUEST == 400
NOT_FOUND == 404
METHOD_NOT_ALLOWED == 405

Clients == 1..NClients
Tasks == 1..MaxTasks
Conns == 1..MaxConns

\* enum PollTask { ForceRun, Cancel }
PollTask == {"ForceRun", "Cancel"}

\* poll_rate: Option<Uint32>, as a sequence: <<>> is None, <<r>> is Some(r).
None == <<>>
Some(r) == <<r>>
Rates == {None, Some(1)}

\* Instants the clock can show (seconds): the start, one second short of the
\* default rate, and the default rate.
TimePoints == {0, 899, 900}

VARIABLES
    now,          \* the tokio clock, in seconds
    handles,      \* handles[c]: Client handles the host holds on the channel of Client c
    tail,         \* tail[c]: tail.pos of the channel of Client c: messages written so far
    slot,         \* slot[c]: the value in the single buffer slot (position tail[c]-1)
    pc,           \* pc[t]: where poll task t is
    tchan,        \* tchan[t]: the Client whose channel task t subscribed to, 0 = none
    rate,         \* rate[t]: the poll_rate argument of start_poll
    next,         \* next[t]: the receiver's next position
    waitStart,    \* waitStart[t]: when the sleep of the current select! was created
                  \* (for the first iteration: when start_poll spawned the task)
    wake,         \* wake[t]: what woke the task for the iteration it is in
    cancelled,    \* history: cancel_polls was called on t's Client while t was registered
    forcePending, \* history: force_poll was called on t's Client while t was registered,
                  \* and t has not been woken by a ForceRun since
    calledOn,     \* history: force_poll/cancel_polls was ever called on Client c
    runpc,        \* where ClientNotifServer::run is
    shutdown,     \* the shutdown future passed to run has completed
    stream,       \* the connection run is setting up (0 = none)
    conn,         \* conn[k]: what has become of connection k
    acceptFailed, \* history: listener.accept() has returned an error
    result,       \* what run returned
    hop,          \* the Client operation or conversion last applied
    harg,         \* what it was applied to
    hres,         \* what it returned
    routes,       \* routes[p]: the handler registered for path p (0 = none)
    htype,        \* htype[h]: the resource type T of handler h
    adds,         \* calls of add so far
    listening,    \* run has been called
    rpc,          \* rpc[r]: where the request on the connection of slot r is
    rreq,         \* rreq[r]: the request
    lock,         \* lock[s]: the request holding the write lock of shard s (0 = free)
    rresp,        \* rresp[r]: the response sent for the request
    handled,      \* handled[r]: the handler called for the request, and with what
    called,       \* called[r]: the callback of the host was called for the request
    cfn,          \* the certificate check that was called
    cpc,          \* where it is: idle, loop (in `for ext in exts`), done
    cflags,       \* its flags (key_usage, certificate_policies, ...)
    cext,         \* the extension the loop read last
    seen,         \* the extensions the loop has read
    nexts,        \* how many it has read
    exhausted,    \* the loop reached the end of the extensions
    cresult,      \* what the check returned: "Ok" or the message of its error
    tfn,          \* the TLS configuration builder that was called
    tpc,          \* the call on the builder it is at
    thost,        \* the target it was compiled for and runs on
    tfiles,       \* which of the files given to it OpenSSL can load
    tcfg,         \* the configuration built so far
    tres,         \* what the builder returned
    tm            \* time.rs: TIME_OFFSET, the system clock, the build, and the
                  \* calls of update_time_offset and current_time_with_offset

chanVars == <<tail, slot>>
taskVars == <<pc, tchan, rate, next, waitStart, wake>>
histVars == <<cancelled, forcePending, calledOn>>
pollVars == <<now, handles, tail, slot, pc, tchan, rate, next, waitStart, wake,
              cancelled, forcePending, calledOn>>

serverVars == <<runpc, shutdown, stream, conn, acceptFailed, result>>

\* What the poll scheduler leaves alone, and what the accept loop leaves alone.
httpVars == <<hop, harg, hres>>

routerVars == <<routes, htype, adds, listening, rpc, rreq, lock, rresp, handled, called>>

certVars == <<cfn, cpc, cflags, cext, seen, nexts, exhausted, cresult>>

tlsVars == <<tfn, tpc, thost, tfiles, tcfg, tres>>

timeVars == <<tm>>

nonPollVars == <<serverVars, httpVars, routerVars, certVars, tlsVars, timeVars>>
nonServerVars == <<pollVars, httpVars, routerVars, certVars, tlsVars, timeVars>>
nonHttpVars == <<pollVars, serverVars, routerVars, certVars, tlsVars, timeVars>>
nonRouterVars == <<pollVars, serverVars, httpVars, certVars, tlsVars, timeVars>>
nonCertVars == <<pollVars, serverVars, httpVars, routerVars, tlsVars, timeVars>>
nonTlsVars == <<pollVars, serverVars, httpVars, routerVars, certVars, timeVars>>
nonTimeVars == <<pollVars, serverVars, httpVars, routerVars, certVars, tlsVars>>

(***************************************************************************)
(* The broadcast channel (tokio::sync::broadcast, capacity 1).             *)
(***************************************************************************)
\* A task owns its receiver and a clone of the Client from start_poll until
\* the spawned future ends.
Live(t) == pc[t] \in {"wait", "get", "gotOk", "gotErr", "callback"}

TasksOn(c) == {t \in Tasks : tchan[t] = c}

\* The poll tasks of Client c that are running.
Registered(c) == {t \in TasksOn(c) : Live(t)}

\* Receivers of the channel: one per live poll task (the receiver made by
\* Client::new is dropped at once: `let (tx, _) = ...`).
RxCnt(c) == Cardinality(Registered(c))

\* Senders of the channel: the host's handles, and the Client clone each live
\* poll task holds (`let client = self.clone()` moved into the task).
TxCnt(c) == handles[c] + Cardinality(Registered(c))

\* The channel closes when its last sender is dropped.
Closed(c) == TxCnt(c) = 0

\* A broadcaster shared by every Client instead of one per Client::new.
SendTargetsShared(c) == Clients

\* The channels a send on the broadcaster of Client c writes to: its own.
SendTargets(c) == {c}

\* A send that writes its value whether or not anyone is subscribed.
SendStoresAlways(c) == TRUE

\* Sender::send writes only when the channel has a receiver.
SendStores(c) == RxCnt(c) > 0

\* Sender::send: with no receiver the value is returned in Err(SendError) and
\* nothing is written; otherwise it is written at tail.pos, overwriting the
\* slot, and tail.pos advances.
Send(c, msg) ==
    /\ tail' = [d \in Clients |->
                  IF d \in SendTargets(c) /\ SendStores(d) THEN tail[d] + 1 ELSE tail[d]]
    /\ slot' = [d \in Clients |->
                  IF d \in SendTargets(c) /\ SendStores(d) THEN msg ELSE slot[d]]

\* Sender::subscribe: the new receiver starts at tail.pos, so it sees only the
\* messages sent from now on.
Subscribe(c) == tail[c]

\* Receiver::recv is ready when a message is there for this receiver or the
\* channel is closed.
RecvReady(t) ==
    \/ next[t] < tail[tchan[t]]
    \/ Closed(tchan[t])

\* Receiver::recv when ready. The slot holds position tail - capacity:
\*   next = that position   -> Ok(value)
\*   next = tail (closed)   -> Err(Closed)
\*   next before it         -> Err(Lagged(missed))
RecvResult(t) ==
    LET c == tchan[t] IN
    IF next[t] = tail[c] - ChannelCapacity THEN slot[c]
    ELSE IF next[t] = tail[c] THEN "Closed"
    ELSE "Lagged"

(***************************************************************************)
(* Client::get seen from the poll task: the response decides Ok or Err.    *)
(***************************************************************************)
\* What the HTTP engine hands back: a transport error, or a status with a
\* body that deserializes or not.
Responses ==
    {[transport |-> FALSE, status |-> 200, decodes |-> TRUE],
     [transport |-> FALSE, status |-> 200, decodes |-> FALSE],
     [transport |-> FALSE, status |-> 404, decodes |-> TRUE],
     [transport |-> FALSE, status |-> 204, decodes |-> TRUE],
     [transport |-> TRUE,  status |-> 0,   decodes |-> FALSE]}

\* get: `request(req).await?`, then only status 200 goes on to deserialize.
GetOk(resp) ==
    /\ ~resp.transport
    /\ resp.status = 200
    /\ resp.decodes

\* unwrap_or_default() in place of unwrap_or(Self::DEFAULT_POLLRATE).
PollRateOrZero(r) == IF r = None THEN 0 ELSE r[1]

\* poll_rate.unwrap_or(Self::DEFAULT_POLLRATE)
PollRate(r) == IF r = None THEN DEFAULT_POLLRATE ELSE r[1]

PollInit ==
    /\ now = 0
    /\ handles = [c \in Clients |-> 1]
    /\ tail = [c \in Clients |-> 0]
    /\ slot = [c \in Clients |-> "Empty"]
    /\ pc = [t \in Tasks |-> "none"]
    /\ tchan = [t \in Tasks |-> 0]
    /\ rate = [t \in Tasks |-> None]
    /\ next = [t \in Tasks |-> 0]
    /\ waitStart = [t \in Tasks |-> 0]
    /\ wake = [t \in Tasks |-> "none"]
    /\ cancelled = [t \in Tasks |-> FALSE]
    /\ forcePending = [t \in Tasks |-> FALSE]
    /\ calledOn = [c \in Clients |-> FALSE]

\* The server is built (ClientNotifServer::new, add) and run is called.
ServerInit ==
    /\ runpc = "bind"
    /\ shutdown = FALSE
    /\ stream = 0
    /\ conn = [k \in Conns |-> "none"]
    /\ acceptFailed = FALSE
    /\ result = "none"

\* Time passes.
Tick ==
    /\ \E tp \in TimePoints : tp > now /\ now' = tp
    /\ UNCHANGED <<handles, chanVars, taskVars, histVars>>
    /\ UNCHANGED nonPollVars

\* #[derive(Clone)] on Client: the clone holds a clone of the broadcaster, a
\* further sender of the same channel.
CloneClient(c) ==
    /\ handles[c] > 0
    /\ handles[c] < MaxHandles
    /\ handles' = [handles EXCEPT ![c] = @ + 1]
    /\ UNCHANGED <<now, chanVars, taskVars, histVars>>
    /\ UNCHANGED nonPollVars

\* The host drops a Client handle.
DropClient(c) ==
    /\ handles[c] > 0
    /\ handles' = [handles EXCEPT ![c] = @ - 1]
    /\ UNCHANGED <<now, chanVars, taskVars, histVars>>
    /\ UNCHANGED nonPollVars

\* Client::start_poll on a handle of Client c: clone the client, subscribe,
\* spawn the task, which enters its first select! (the sleep is created then;
\* the model takes the earliest instant for it, the call itself).
StartPoll(c, t, r) ==
    /\ handles[c] > 0
    /\ pc[t] = "none"
    /\ \A t2 \in Tasks : t2 < t => pc[t2] # "none"
    /\ pc' = [pc EXCEPT ![t] = "wait"]
    /\ tchan' = [tchan EXCEPT ![t] = c]
    /\ rate' = [rate EXCEPT ![t] = r]
    /\ next' = [next EXCEPT ![t] = Subscribe(c)]
    /\ waitStart' = [waitStart EXCEPT ![t] = now]
    /\ UNCHANGED <<now, handles, chanVars, wake, histVars>>
    /\ UNCHANGED nonPollVars

\* Client::force_poll: `let _ = self.broadcaster.send(PollTask::ForceRun)`
ForcePoll(c) ==
    /\ handles[c] > 0
    /\ tail[c] < MaxSends
    /\ Send(c, "ForceRun")
    /\ forcePending' = [t \in Tasks |-> forcePending[t] \/ t \in Registered(c)]
    /\ calledOn' = [calledOn EXCEPT ![c] = TRUE]
    /\ UNCHANGED <<now, handles, taskVars, cancelled>>
    /\ UNCHANGED nonPollVars

\* Client::cancel_polls: `let _ = self.broadcaster.send(PollTask::Cancel)`
CancelPolls(c) ==
    /\ handles[c] > 0
    /\ tail[c] < MaxSends
    /\ Send(c, "Cancel")
    /\ cancelled' = [t \in Tasks |-> cancelled[t] \/ t \in Registered(c)]
    /\ calledOn' = [calledOn EXCEPT ![c] = TRUE]
    /\ UNCHANGED <<now, handles, taskVars, forcePending>>
    /\ UNCHANGED nonPollVars

\* The sleep of poll_rate (or DEFAULT_POLLRATE) seconds has elapsed.
TimerElapsed(t) == now >= waitStart[t] + PollRate(rate[t])

\* select! takes the sleep branch: go on to the GET.
WakeByTimer(t) ==
    /\ pc[t] = "wait"
    /\ pc' = [pc EXCEPT ![t] = "get"]
    /\ wake' = [wake EXCEPT ![t] = "timer"]
    /\ UNCHANGED <<now, handles, chanVars, tchan, rate, next, waitStart, histVars>>
    /\ UNCHANGED nonPollVars

\* The sleep branch, with the clock of the model deciding when it is ready.
TimerFire(t) ==
    /\ TimerElapsed(t)
    /\ WakeByTimer(t)

\* A sleep that completes only while no other task is in its GET or callback.
SleepDoneSerial(t) ==
    /\ \A t2 \in Tasks \ {t} : pc[t2] \notin {"get", "gotOk", "gotErr", "callback"}
    /\ WakeByTimer(t)

\* The sleep branch, with the instant it becomes ready left open: the sleep
\* may complete at any moment of the wait.
SleepDone(t) == WakeByTimer(t)

\* A match that lets Cancel fall through to the GET like ForceRun.
AfterRecvNoCancel(res) == IF res \in {"ForceRun", "Cancel"} THEN "get" ELSE "done"

\* What the task does with the result of rx.recv():
\*   Ok(ForceRun) => (), Ok(Cancel) => break, Err(_) => break
AfterRecv(res) == IF res = "ForceRun" THEN "get" ELSE "done"

\* select! takes the rx.recv() branch. A task that breaks out of the loop ends:
\* its receiver, its sleep and its Client clone are dropped.
Recv(t) ==
    /\ pc[t] = "wait"
    /\ RecvReady(t)
    /\ LET to == AfterRecv(RecvResult(t)) IN
       /\ pc' = [pc EXCEPT ![t] = to]
       /\ next' = [next EXCEPT ![t] = IF to = "get" THEN @ + 1 ELSE 0]
       /\ wake' = [wake EXCEPT ![t] = IF to = "get" THEN "force" ELSE "none"]
       /\ waitStart' = [waitStart EXCEPT ![t] = IF to = "get" THEN @ ELSE 0]
       /\ forcePending' = [forcePending EXCEPT ![t] = IF to = "get" THEN FALSE ELSE @]
    /\ UNCHANGED <<now, handles, chanVars, tchan, rate, cancelled, calledOn>>
    /\ UNCHANGED nonPollVars

\* client.get::<R>(&path).await completes with some response.
GetDone(t, resp) ==
    /\ pc[t] = "get"
    /\ pc' = [pc EXCEPT ![t] = IF GetOk(resp) THEN "gotOk" ELSE "gotErr"]
    /\ UNCHANGED <<now, handles, chanVars, tchan, rate, next, waitStart, wake, histVars>>
    /\ UNCHANGED nonPollVars

\* The top of the loop: select! creates a new sleep and polls both branches.
EnterWait(t) ==
    /\ pc' = [pc EXCEPT ![t] = "wait"]
    /\ waitStart' = [waitStart EXCEPT ![t] = now]
    /\ wake' = [wake EXCEPT ![t] = "none"]

\* A match that starts the callback without awaiting it.
AfterGetDetached(got) == "wait"

\* A match that hands the callback something on Err too.
AfterGetAlwaysCallback(got) == "callback"

\* match res { Ok(rsrc) => callback(rsrc).await, Err(_) => error!(...) }
AfterGet(got) == IF got = "gotOk" THEN "callback" ELSE "wait"

\* The match on the result of the GET: the callback is invoked on Ok; on Err
\* the loop starts over.
MatchRes(t) ==
    /\ pc[t] \in {"gotOk", "gotErr"}
    /\ IF AfterGet(pc[t]) = "callback"
       THEN /\ pc' = [pc EXCEPT ![t] = "callback"]
            /\ UNCHANGED <<waitStart, wake>>
       ELSE EnterWait(t)
    /\ UNCHANGED <<now, handles, chanVars, tchan, rate, next, histVars>>
    /\ UNCHANGED nonPollVars

\* callback(rsrc).await completes; the loop starts over.
CallbackDone(t) ==
    /\ pc[t] = "callback"
    /\ EnterWait(t)
    /\ UNCHANGED <<now, handles, chanVars, tchan, rate, next, histVars>>
    /\ UNCHANGED nonPollVars

(***************************************************************************)
(* ClientNotifServer::run (pubsub.rs).                                     *)
(***************************************************************************)
\* Dropping the JoinSet, or JoinSet::shutdown, aborts every task still in it.
AbortAll == [k \in Conns |-> IF conn[k] = "serving" THEN "aborting" ELSE conn[k]]

\* `let acceptor = self.cfg.build()` cannot fail;
\* `TcpListener::bind(self.addr).await?` returns the error of a failed bind.
Bind(ok) ==
    /\ runpc = "bind"
    /\ IF ok
       THEN /\ runpc' = "accept"
            /\ UNCHANGED result
       ELSE /\ runpc' = "returned"
            /\ result' = "Err"
    /\ UNCHANGED <<shutdown, stream, conn, acceptFailed>>
    /\ UNCHANGED nonServerVars

\* The future the host passed to run completes.
ShutdownCompletes ==
    /\ ~shutdown
    /\ shutdown' = TRUE
    /\ UNCHANGED <<runpc, stream, conn, acceptFailed, result>>
    /\ UNCHANGED nonServerVars

\* select! { _ = &mut shutdown => break, ... }
SelectShutdown ==
    /\ runpc = "accept"
    /\ shutdown
    /\ runpc' = "shutdown"
    /\ UNCHANGED <<shutdown, stream, conn, acceptFailed, result>>
    /\ UNCHANGED nonServerVars

\* select! { res = listener.accept() => Ok((s, a)) }: connection k arrives.
AcceptOk(k) ==
    /\ runpc = "accept"
    /\ conn[k] = "none"
    /\ \A k2 \in Conns : k2 < k => conn[k2] # "none"
    /\ conn' = [conn EXCEPT ![k] = "tcp"]
    /\ stream' = k
    /\ runpc' = "session"
    /\ UNCHANGED <<shutdown, acceptFailed, result>>
    /\ UNCHANGED nonServerVars

\* select! { res = listener.accept() => Err(err) }: log and continue.
AcceptErr ==
    /\ runpc = "accept"
    /\ acceptFailed' = TRUE
    /\ UNCHANGED <<runpc, shutdown, stream, conn, result>>
    /\ UNCHANGED nonServerVars

\* What run does after `Ssl::new(acceptor.context())?` and
\* `SslStream::new(ssl, stream)?`: go on to the handshake, or return the error.
AfterSession(ok) == IF ok THEN "handshake" ELSE "returned"

\* The TLS session of the accepted stream is set up. On an error run returns
\* it: the stream and the JoinSet are dropped, which aborts the tasks.
SessionSetup(ok) ==
    /\ runpc = "session"
    /\ runpc' = AfterSession(ok)
    /\ IF AfterSession(ok) = "returned"
       THEN /\ result' = "Err"
            /\ conn' = [AbortAll EXCEPT ![stream] = "dropped"]
            /\ stream' = 0
       ELSE UNCHANGED <<result, conn, stream>>
    /\ UNCHANGED <<shutdown, acceptFailed>>
    /\ UNCHANGED nonServerVars

\* `stream.as_mut().accept().await` completes: on an error log and continue,
\* otherwise spawn the task that serves the connection.
Handshake(ok) ==
    /\ runpc = "handshake"
    /\ conn' = [conn EXCEPT ![stream] = IF ok THEN "serving" ELSE "dropped"]
    /\ stream' = 0
    /\ runpc' = "accept"
    /\ UNCHANGED <<shutdown, acceptFailed, result>>
    /\ UNCHANGED nonServerVars

\* serve_connection of a per-connection task ends, with an error (logged) or
\* without.
ConnServed(k, ok) ==
    /\ conn[k] = "serving"
    /\ conn' = [conn EXCEPT ![k] = IF ok THEN "closed" ELSE "failed"]
    /\ UNCHANGED <<runpc, shutdown, stream, acceptFailed, result>>
    /\ UNCHANGED nonServerVars

\* set.shutdown(): abort every task of the JoinSet ...
SetShutdown ==
    /\ runpc = "shutdown"
    /\ conn' = AbortAll
    /\ runpc' = "joining"
    /\ UNCHANGED <<shutdown, stream, acceptFailed, result>>
    /\ UNCHANGED nonServerVars

\* An aborted task ends at its next await.
TaskAborted(k) ==
    /\ conn[k] = "aborting"
    /\ conn' = [conn EXCEPT ![k] = "aborted"]
    /\ UNCHANGED <<runpc, shutdown, stream, acceptFailed, result>>
    /\ UNCHANGED nonServerVars

\* ... and `.await` until all of them have ended; then Ok(()).
ReturnOk ==
    /\ runpc = "joining"
    /\ \A k \in Conns : conn[k] # "aborting"
    /\ runpc' = "returned"
    /\ result' = "Ok"
    /\ UNCHANGED <<shutdown, stream, conn, acceptFailed>>
    /\ UNCHANGED nonServerVars

(***************************************************************************)
(* SepResponse and the HTTP operations of Client (client.rs).              *)
(***************************************************************************)
\* A string is a sequence of characters; one character stands for each class
\* the http crate tells apart: visible ASCII, a control character, and a
\* character outside ASCII (bytes >= 0x80 in UTF-8).
Chars == {"a", "LF", "U+00E9"}

Strs == UNION {[1..n -> Chars] : n \in 0..MaxStrLen}

\* HeaderValue::from_str / from_bytes accept b >= 32 && b != 127 || b == '\t'.
IsValidHeaderChar(ch) == ch # "LF"

\* HeaderValue::to_str and from_static accept visible ASCII only.
IsVisibleAscii(ch) == ch \notin {"LF", "U+00E9"}

\* `loc.parse()` into a HeaderValue succeeds, keeping the bytes.
ParsesAsHeaderValue(str) == \A i \in 1..Len(str) : IsValidHeaderChar(str[i])

\* HeaderValue::from_static(methods) does not panic.
StaticHeaderValueOk(str) == \A i \in 1..Len(str) : IsVisibleAscii(str[i])

\* HeaderValue::to_str succeeds.
ToStrOk(hv) == \A i \in 1..Len(hv) : IsVisibleAscii(hv[i])

\* The header values a peer can send.
HeaderValues == {str \in Strs : ParsesAsHeaderValue(str)}

\* enum SepResponse { Created(String), NoContent, BadRequest, NotFound,
\*                    MethodNotAllowed(&'static str) }
Created(loc) == [tag |-> "Created", arg |-> loc]
NoContent == [tag |-> "NoContent", arg |-> <<>>]
BadRequest == [tag |-> "BadRequest", arg |-> <<>>]
NotFound == [tag |-> "NotFound", arg |-> <<>>]
MethodNotAllowed(methods) == [tag |-> "MethodNotAllowed", arg |-> methods]

SepResponses ==
    {Created(str) : str \in Strs} \cup {NoContent, BadRequest, NotFound}
        \cup {MethodNotAllowed(str) : str \in Strs}

\* A hyper::Response<Body> with an empty body: status and header map (a set of
\* <<name, value>> pairs). Panicked is the conversion that did not return.
HttpResponse(st, hs) == [panic |-> FALSE, status |-> st, headers |-> hs]
Panicked == [panic |-> TRUE, status |-> 0, headers |-> {}]

\* impl From<SepResponse> for hyper::Response<Body>
FromSepResponse(value) ==
    CASE value.tag = "Created" ->
            IF ParsesAsHeaderValue(value.arg)
            THEN HttpResponse(CREATED, {<<"location", value.arg>>})
            ELSE Panicked
      [] value.tag = "NoContent" -> HttpResponse(NO_CONTENT, {})
      [] value.tag = "BadRequest" -> HttpResponse(BAD_REQUEST, {})
      [] value.tag = "NotFound" -> HttpResponse(NOT_FOUND, {})
      [] value.tag = "MethodNotAllowed" ->
            IF StaticHeaderValueOk(value.arg)
            THEN HttpResponse(METHOD_NOT_ALLOWED, {<<"allow", value.arg>>})
            ELSE Panicked

\* XML documents by what deserialize makes of them: a document of resource
\* type T1 or T2, or something that is no resource. utf8 tells whether the
\* bytes are valid UTF-8 (when not, the invalid bytes sit in character data).
Types == {"T1", "T2"}
Bodies == [utf8 : BOOLEAN, doc : Types \cup {"garbage"}]

\* A conversion that lets invalid UTF-8 through (as from_utf8_lossy does).
FromUtf8Tolerant(body) == Some(body.doc)

\* String::from_utf8(bytes): Err on invalid UTF-8 (None), else the string.
FromUtf8(body) == IF body.utf8 THEN Some(body.doc) ELSE None

\* String::from_utf8_lossy(&body): invalid bytes become U+FFFD, the rest stays.
FromUtf8Lossy(body) == body.doc

\* deserialize::<R>(xml) succeeds on a document of R.
DeserializeOk(ty, xml) == xml = ty

\* What the HTTP engine hands back for a request: the failure before any
\* response (`pre`), or a response with its status, its Location header if
\* any, and its body (bodyOk: the body can be read in full).
Statuses == {OK, CREATED, NO_CONTENT, BAD_REQUEST, NOT_FOUND, METHOD_NOT_ALLOWED, 500}

ServerResponses ==
    [pre : {"ok"}, status : Statuses,
     location : {None} \cup {Some(hv) : hv \in HeaderValues},
     bodyOk : {TRUE}, body : {[utf8 |-> TRUE, doc |-> "garbage"]}]
    \cup
    [pre : {"ok"}, status : Statuses, location : {None},
     bodyOk : BOOLEAN, body : Bodies]

Failures ==
    [pre : {"badUri", "serializeErr", "transportErr"}, status : {0},
     location : {None}, bodyOk : {FALSE}, body : {[utf8 |-> TRUE, doc |-> "garbage"]}]

Outcomes == ServerResponses \cup Failures

\* Result<SepResponse>: Ok(value) or Err(message), with the request that went
\* out ("none" when the operation failed before sending one).
NoValue == [tag |-> "none", arg |-> <<>>]
ErrResponse(e, m) == [ok |-> FALSE, value |-> NoValue, err |-> e, sent |-> m]

\* A match that takes 200 for 204.
PutPostStatusOkAsNoContent(o) ==
    CASE o.status = CREATED ->
            IF o.location = None
            THEN [ok |-> FALSE, value |-> NoValue,
                  err |-> "201 Created - Missing Location Header"]
            ELSE IF ~ToStrOk(o.location[1])
            THEN [ok |-> FALSE, value |-> NoValue,
                  err |-> "failed to convert header to a str"]
            ELSE [ok |-> TRUE, value |-> Created(o.location[1]), err |-> ""]
      [] o.status \in {NO_CONTENT, OK} -> [ok |-> TRUE, value |-> NoContent, err |-> ""]
      [] o.status = BAD_REQUEST -> [ok |-> FALSE, value |-> NoValue, err |-> "400 Bad Request"]
      [] o.status = NOT_FOUND -> [ok |-> FALSE, value |-> NoValue, err |-> "404 Not Found"]
      [] OTHER -> [ok |-> FALSE, value |-> NoValue,
                   err |-> "Unexpected HTTP response from server"]

\* put_post: `match res.status() { ... }`
PutPostStatus(o) ==
    CASE o.status = CREATED ->
            IF o.location = None
            THEN [ok |-> FALSE, value |-> NoValue,
                  err |-> "201 Created - Missing Location Header"]
            ELSE IF ~ToStrOk(o.location[1])
            THEN [ok |-> FALSE, value |-> NoValue,
                  err |-> "failed to convert header to a str"]
            ELSE [ok |-> TRUE, value |-> Created(o.location[1]), err |-> ""]
      [] o.status = NO_CONTENT -> [ok |-> TRUE, value |-> NoContent, err |-> ""]
      [] o.status = BAD_REQUEST -> [ok |-> FALSE, value |-> NoValue, err |-> "400 Bad Request"]
      [] o.status = NOT_FOUND -> [ok |-> FALSE, value |-> NoValue, err |-> "404 Not Found"]
      [] OTHER -> [ok |-> FALSE, value |-> NoValue,
                   err |-> "Unexpected HTTP response from server"]

\* Client::put_post: parse the URI, serialize the resource, send the request
\* with the given method, and map the status of the response.
put_post(method, o) ==
    IF o.pre = "badUri" THEN ErrResponse("Failed to parse address", "none")
    ELSE IF o.pre = "serializeErr" THEN ErrResponse("serialize", "none")
    ELSE IF o.pre = "transportErr" THEN ErrResponse("transport", method)
    ELSE LET r == PutPostStatus(o) IN
         [ok |-> r.ok, value |-> r.value, err |-> r.err, sent |-> method]

\* Client::post
post(o) == put_post("POST", o)

\* Client::put
put(o) == put_post("PUT", o)

\* A match that reads the body of a 204 as well.
GetReadsBodyOn204(st) == st \in {OK, NO_CONTENT}

\* get: `StatusCode::OK => ()`: the only status that goes on to the body.
GetReadsBody(st) == st = OK

\* Client::get::<R>: Ok(resource document) or Err(message); bodyRead tells
\* whether hyper::body::to_bytes was called on the response.
get(ty, o) ==
    IF o.pre = "badUri"
    THEN [ok |-> FALSE, value |-> "none", err |-> "Failed to parse address", bodyRead |-> FALSE]
    ELSE IF o.pre # "ok"
    THEN [ok |-> FALSE, value |-> "none", err |-> "transport", bodyRead |-> FALSE]
    ELSE IF ~GetReadsBody(o.status)
    THEN [ok |-> FALSE, value |-> "none",
          err |-> IF o.status = NOT_FOUND THEN "404 Not Found"
                  ELSE "Unexpected HTTP response from server",
          bodyRead |-> FALSE]
    ELSE IF ~o.bodyOk
    THEN [ok |-> FALSE, value |-> "none", err |-> "body", bodyRead |-> TRUE]
    ELSE IF DeserializeOk(ty, FromUtf8Lossy(o.body))
    THEN [ok |-> TRUE, value |-> FromUtf8Lossy(o.body), err |-> "", bodyRead |-> TRUE]
    ELSE [ok |-> FALSE, value |-> "none", err |-> "deserialize", bodyRead |-> TRUE]

\* Client::delete: Ok(()) on 204 only.
delete(o) ==
    IF o.pre = "badUri" THEN [ok |-> FALSE, err |-> "Failed to parse address"]
    ELSE IF o.pre # "ok" THEN [ok |-> FALSE, err |-> "transport"]
    ELSE IF o.status = NO_CONTENT THEN [ok |-> TRUE, err |-> ""]
    ELSE IF o.status = BAD_REQUEST THEN [ok |-> FALSE, err |-> "400 Bad Request"]
    ELSE IF o.status = NOT_FOUND THEN [ok |-> FALSE, err |-> "404 Not Found"]
    ELSE [ok |-> FALSE, err |-> "Unexpected HTTP response from server"]

HttpInit ==
    /\ hop = "none"
    /\ harg = NoValue
    /\ hres = NoValue

\* The host converts a SepResponse into a hyper::Response.
Convert(v) ==
    /\ hop' = "convert"
    /\ harg' = v
    /\ hres' = FromSepResponse(v)
    /\ UNCHANGED nonHttpVars

\* The host calls put and the call completes.
Put(o) ==
    /\ hop' = "put"
    /\ harg' = o
    /\ hres' = put(o)
    /\ UNCHANGED nonHttpVars

\* The host calls post and the call completes.
Post(o) ==
    /\ hop' = "post"
    /\ harg' = o
    /\ hres' = post(o)
    /\ UNCHANGED nonHttpVars

\* The host calls get::<R> and the call completes.
Get(ty, o) ==
    /\ o.pre # "serializeErr"
    /\ hop' = "get"
    /\ harg' = [ty |-> ty, o |-> o]
    /\ hres' = get(ty, o)
    /\ UNCHANGED nonHttpVars

\* The host calls delete and the call completes.
Delete(o) ==
    /\ o.pre # "serializeErr"
    /\ hop' = "delete"
    /\ harg' = o
    /\ hres' = delete(o)
    /\ UNCHANGED nonHttpVars

HttpStep ==
    \/ \E v \in SepResponses : Convert(v)
    \/ \E o \in Outcomes : Put(o)
    \/ \E o \in Outcomes : Post(o)
    \/ \E ty \in Types, o \in Outcomes : Get(ty, o)
    \/ \E o \in Outcomes : Delete(o)

(***************************************************************************)
(* Router and the routes of ClientNotifServer (pubsub.rs).                 *)
(***************************************************************************)
\* The paths add is called with, and the paths requests come for.
RoutePaths == {"/a", "/b"}
ReqPaths == {"/a", "/b", "/a/x"}
Methods == {"POST", "GET"}

Handlers == 1..MaxAdds
Slots == 1..MaxReqs

\* DashMap keeps its entries in shards, each behind its own lock; the hash of
\* the key picks the shard. Two of the paths fall into the same shard.
Shards == {"s1", "s2"}
ShardOf(path) == IF path = "/b" THEN "s2" ELSE "s1"

\* The requests peers send: a POST with some body, or another method.
Requests ==
    [path : ReqPaths, method : {"POST"},
     body : {b \in Bodies : b.utf8 \/ b.doc = "garbage"}]
    \cup
    [path : ReqPaths, method : Methods \ {"POST"},
     body : {[utf8 |-> TRUE, doc |-> "garbage"]}]

NoRequest == [path |-> "none", method |-> "none", body |-> [utf8 |-> TRUE, doc |-> "garbage"]]

\* No response has been produced.
NoResponse == [panic |-> FALSE, status |-> 0, headers |-> {}]

\* No handler has been called.
NotHandled == [h |-> 0, xml |-> "none"]

\* What the callbacks of the host answer.
CallbackResponses == {NoContent, Created(<<"a">>), Created(<<"LF">>)}

\* "POST".to_owned() as a string of the model.
POST == <<"P", "O", "S", "T">>

RouterInit ==
    /\ routes = [p \in RoutePaths |-> 0]
    /\ htype = [h \in Handlers |-> "none"]
    /\ adds = 0
    /\ listening = FALSE
    /\ rpc = [r \in Slots |-> "idle"]
    /\ rreq = [r \in Slots |-> NoRequest]
    /\ lock = [s \in Shards |-> 0]
    /\ rresp = [r \in Slots |-> NoResponse]
    /\ handled = [r \in Slots |-> NotHandled]
    /\ called = [r \in Slots |-> FALSE]

\* An add that keeps the handler a path already has (entry().or_insert).
AddKeepFirst(path, ty) ==
    /\ ~listening
    /\ adds < MaxAdds
    /\ adds' = adds + 1
    /\ routes' = [routes EXCEPT ![path] = IF @ = 0 THEN adds + 1 ELSE @]
    /\ htype' = [htype EXCEPT ![adds + 1] = ty]
    /\ UNCHANGED <<listening, rpc, rreq, lock, rresp, handled, called>>
    /\ UNCHANGED nonRouterVars

\* ClientNotifServer::add::<T>(path, callback): box the adapter around the
\* callback and insert it, replacing what the path had.
Add(path, ty) ==
    /\ ~listening
    /\ adds < MaxAdds
    /\ adds' = adds + 1
    /\ routes' = [routes EXCEPT ![path] = adds + 1]
    /\ htype' = [htype EXCEPT ![adds + 1] = ty]
    /\ UNCHANGED <<listening, rpc, rreq, lock, rresp, handled, called>>
    /\ UNCHANGED nonRouterVars

\* run takes the server by value and puts the router in an Arc: from here on
\* add cannot be called.
Listen ==
    /\ ~listening
    /\ listening' = TRUE
    /\ UNCHANGED <<routes, htype, adds, rpc, rreq, lock, rresp, handled, called>>
    /\ UNCHANGED nonRouterVars

\* A request arrives on the connection of slot r and the service calls
\* Router::router.
Request(r, req) ==
    /\ listening
    /\ rpc[r] = "idle"
    /\ rpc' = [rpc EXCEPT ![r] = "routing"]
    /\ rreq' = [rreq EXCEPT ![r] = req]
    /\ rresp' = [rresp EXCEPT ![r] = NoResponse]
    /\ handled' = [handled EXCEPT ![r] = NotHandled]
    /\ called' = [called EXCEPT ![r] = FALSE]
    /\ UNCHANGED <<routes, htype, adds, listening, lock>>
    /\ UNCHANGED nonRouterVars

\* A lookup that takes the longest registered prefix of the path.
LookupPrefix(path) ==
    IF path \in RoutePaths THEN routes[path]
    ELSE IF path = "/a/x" THEN routes["/a"]
    ELSE 0

\* self.routes.get_mut(&path): the entry of exactly this key, if any.
Lookup(path) == IF path \in RoutePaths THEN routes[path] ELSE 0

\* Router::router up to its first await: get_mut takes the write lock of the
\* shard of the path (waiting while it is held); None answers NotFound, a
\* method other than POST answers MethodNotAllowed("POST"), both releasing the
\* lock; POST keeps the entry, and with it the lock, and reads the body.
Route(r) ==
    /\ rpc[r] = "routing"
    /\ lock[ShardOf(rreq[r].path)] = 0
    /\ IF Lookup(rreq[r].path) = 0
       THEN /\ rresp' = [rresp EXCEPT ![r] = FromSepResponse(NotFound)]
            /\ rpc' = [rpc EXCEPT ![r] = "idle"]
            /\ UNCHANGED lock
       ELSE IF rreq[r].method # "POST"
       THEN /\ rresp' = [rresp EXCEPT ![r] = FromSepResponse(MethodNotAllowed(POST))]
            /\ rpc' = [rpc EXCEPT ![r] = "idle"]
            /\ UNCHANGED lock
       ELSE /\ lock' = [lock EXCEPT ![ShardOf(rreq[r].path)] = r]
            /\ rpc' = [rpc EXCEPT ![r] = "body"]
            /\ UNCHANGED rresp
    /\ UNCHANGED <<routes, htype, adds, listening, rreq, handled, called>>
    /\ UNCHANGED nonRouterVars

\* An adapter that calls the callback whatever deserialize returned.
AdapterCallsAlways(ty, xml) == TRUE

\* The adapter add builds: deserialize::<Notification<T>>(e), and the callback
\* on Ok.
AdapterCalls(ty, xml) == DeserializeOk(ty, xml)

\* hyper::body::to_bytes(body).await? and String::from_utf8(..)? : an error of
\* either ends Router::router with Err, which ends serve_connection with an
\* error. Otherwise the handler of the entry is called with the string: it
\* deserializes a Notification<T> and calls the callback of the host, or
\* answers BadRequest.
ReadBody(r, ok) ==
    /\ rpc[r] = "body"
    /\ LET xml == FromUtf8(rreq[r].body)
           h == Lookup(rreq[r].path)
       IN
       IF ~ok \/ xml = None
       THEN /\ rpc' = [rpc EXCEPT ![r] = "closed"]
            /\ lock' = [lock EXCEPT ![ShardOf(rreq[r].path)] = 0]
            /\ UNCHANGED <<rresp, handled, called>>
       ELSE /\ handled' = [handled EXCEPT ![r] = [h |-> h, xml |-> xml[1]]]
            /\ IF AdapterCalls(htype[h], xml[1])
               THEN /\ called' = [called EXCEPT ![r] = TRUE]
                    /\ rpc' = [rpc EXCEPT ![r] = "callback"]
                    /\ UNCHANGED <<rresp, lock>>
               ELSE /\ rresp' = [rresp EXCEPT ![r] = FromSepResponse(BadRequest)]
                    /\ rpc' = [rpc EXCEPT ![r] = "idle"]
                    /\ lock' = [lock EXCEPT ![ShardOf(rreq[r].path)] = 0]
                    /\ UNCHANGED called
    /\ UNCHANGED <<routes, htype, adds, listening, rreq>>
    /\ UNCHANGED nonRouterVars

\* The callback of the host completes with a SepResponse, which is converted
\* and sent; a conversion that panics ends the task of the connection.
RouteCallbackDone(r, v) ==
    /\ rpc[r] = "callback"
    /\ rresp' = [rresp EXCEPT ![r] = FromSepResponse(v)]
    /\ rpc' = [rpc EXCEPT ![r] = IF FromSepResponse(v).panic THEN "closed" ELSE "idle"]
    /\ lock' = [lock EXCEPT ![ShardOf(rreq[r].path)] = 0]
    /\ UNCHANGED <<routes, htype, adds, listening, rreq, handled, called>>
    /\ UNCHANGED nonRouterVars

\* The slot of a connection that ended takes the next connection accepted.
Reconnect(r) ==
    /\ rpc[r] = "closed"
    /\ rpc' = [rpc EXCEPT ![r] = "idle"]
    /\ UNCHANGED <<routes, htype, adds, listening, rreq, lock, rresp, handled, called>>
    /\ UNCHANGED nonRouterVars

RouterStep ==
    \/ \E path \in RoutePaths, ty \in Types : Add(path, ty)
    \/ Listen
    \/ \E r \in Slots, req \in Requests : Request(r, req)
    \/ \E r \in Slots : Route(r)
    \/ \E r \in Slots, ok \in BOOLEAN : ReadBody(r, ok)
    \/ \E r \in Slots, v \in CallbackResponses : RouteCallbackDone(r, v)
    \/ \E r \in Slots : Reconnect(r)

(***************************************************************************)
(* The certificate checks (tls.rs): check_device_cert,                     *)
(* check_self_signed_client_cert, check_ca.                                *)
(***************************************************************************)
\* x509_parser::ParsedExtension, by variant; "Other" is any variant the checks
\* do not name (ExtendedKeyUsage, an unparsed extension, ...).
ExtKinds ==
    {"KeyUsage", "CertificatePolicies", "SubjectAlternativeName",
     "AuthorityKeyIdentifier", "SubjectKeyIdentifier", "PolicyMappings",
     "NameConstraints", "BasicConstraints", "Other"}

\* An X509Extension: its variant, its critical flag, and what the checks read
\* of its contents: crl_sign() and key_cert_sign() of a KeyUsage, ca and
\* path_len_constraint of a BasicConstraints.
Exts ==
    [kind : {"KeyUsage"}, critical : BOOLEAN, crl_sign : BOOLEAN,
     key_cert_sign : BOOLEAN, ca : {FALSE}, path_len_constraint : {None}]
    \cup
    [kind : {"BasicConstraints"}, critical : BOOLEAN, crl_sign : {FALSE},
     key_cert_sign : {FALSE}, ca : BOOLEAN, path_len_constraint : {None, Some(0)}]
    \cup
    [kind : ExtKinds \ {"KeyUsage", "BasicConstraints"}, critical : BOOLEAN,
     crl_sign : {FALSE}, key_cert_sign : {FALSE}, ca : {FALSE},
     path_len_constraint : {None}]

NoExt ==
    [kind |-> "none", critical |-> FALSE, crl_sign |-> FALSE,
     key_cert_sign |-> FALSE, ca |-> FALSE, path_len_constraint |-> None]

\* let mut key_usage = false; ... : the flags of the three checks.
NoFlags ==
    [key_usage |-> FALSE, certificate_policies |-> FALSE, san |-> FALSE,
     aki |-> FALSE, basic_constraints |-> FALSE, ski |-> FALSE]

\* The flag an arm sets for an extension it accepts.
SetFlags(f, names, e) ==
    [f EXCEPT
       !.key_usage = @ \/ (e.kind = "KeyUsage" /\ "key_usage" \in names),
       !.certificate_policies =
            @ \/ (e.kind = "CertificatePolicies" /\ "certificate_policies" \in names),
       !.san = @ \/ (e.kind = "SubjectAlternativeName" /\ "san" \in names),
       !.aki = @ \/ (e.kind = "AuthorityKeyIdentifier" /\ "aki" \in names),
       !.basic_constraints =
            @ \/ (e.kind = "BasicConstraints" /\ "basic_constraints" \in names),
       !.ski = @ \/ (e.kind = "SubjectKeyIdentifier" /\ "ski" \in names)]

\* check_device_cert with an AuthorityKeyIdentifier arm that does not look at
\* the critical flag.
DeviceArmAkiAnyCritical(e) ==
    CASE e.kind = "PolicyMappings" -> "Device Certificates cannot contain policy mappings."
      [] e.kind = "NameConstraints" -> "Device Certificates cannot contain name constraints."
      [] e.kind = "CertificatePolicies" ->
            IF e.critical THEN "" ELSE "CertificatePolicies extension must be critical."
      [] e.kind = "SubjectAlternativeName" ->
            IF e.critical THEN "" ELSE "SubjectAlternativeName extension must be critical"
      [] e.kind = "KeyUsage" ->
            IF e.critical THEN "" ELSE "KeyUsage extension must be critical."
      [] e.kind = "AuthorityKeyIdentifier" -> ""
      [] e.kind = "SubjectKeyIdentifier" ->
            IF e.critical THEN "SubjectKeyIdentifier cannot be critical" ELSE ""
      [] OTHER -> "Unexpected extension or unparsed extension encountered."

\* check_device_cert: the match on ext.parsed_extension(). The message of the
\* bail!, or "" when the arm goes on to the next extension.
DeviceArm(e) ==
    CASE e.kind = "PolicyMappings" -> "Device Certificates cannot contain policy mappings."
      [] e.kind = "NameConstraints" -> "Device Certificates cannot contain name constraints."
      [] e.kind = "CertificatePolicies" ->
            IF e.critical THEN "" ELSE "CertificatePolicies extension must be critical."
      [] e.kind = "SubjectAlternativeName" ->
            IF e.critical THEN "" ELSE "SubjectAlternativeName extension must be critical"
      [] e.kind = "KeyUsage" ->
            IF e.critical THEN "" ELSE "KeyUsage extension must be critical."
      [] e.kind = "AuthorityKeyIdentifier" ->
            IF e.critical THEN "AuthorityKeyIdentifier extension cannot be critical." ELSE ""
      [] e.kind = "SubjectKeyIdentifier" ->
            IF e.critical THEN "SubjectKeyIdentifier cannot be critical" ELSE ""
      [] OTHER -> "Unexpected extension or unparsed extension encountered."

\* check_device_cert: the flags its arms set.
DeviceFlags == {"key_usage", "certificate_policies", "san", "aki"}

\* check_device_cert: the checks after the loop.
DeviceEndResult(f) ==
    IF ~f.key_usage THEN "KeyUsage extension not present"
    ELSE IF ~f.certificate_policies THEN "CertificatePolicies extension not present"
    ELSE IF ~f.san THEN "SubjectAlternativeName extension not present"
    ELSE IF ~f.aki THEN "AuthorityKeyIdentifier extension not present"
    ELSE "Ok"

\* check_self_signed_client_cert with the SubjectAlternativeName arm of
\* check_device_cert.
SelfSignedArmWithSan(e) ==
    CASE e.kind = "PolicyMappings" -> "Device Certificates cannot contain policy mappings."
      [] e.kind = "NameConstraints" -> "Device Certificates cannot contain name constraints."
      [] e.kind = "CertificatePolicies" ->
            IF e.critical THEN "" ELSE "CertificatePolicies extension must be critical."
      [] e.kind = "SubjectAlternativeName" ->
            IF e.critical THEN "" ELSE "SubjectAlternativeName extension must be critical"
      [] e.kind = "KeyUsage" ->
            IF e.critical THEN "" ELSE "KeyUsage extension must be critical."
      [] e.kind = "SubjectKeyIdentifier" ->
            IF e.critical THEN "SubjectKeyIdentifier cannot be critical" ELSE ""
      [] OTHER -> "Unexpected extension or unparsed extension encountered."

\* check_self_signed_client_cert: the match on ext.parsed_extension().
SelfSignedArm(e) ==
    CASE e.kind = "PolicyMappings" -> "Device Certificates cannot contain policy mappings."
      [] e.kind = "NameConstraints" -> "Device Certificates cannot contain name constraints."
      [] e.kind = "CertificatePolicies" ->
            IF e.critical THEN "" ELSE "CertificatePolicies extension must be critical."
      [] e.kind = "KeyUsage" ->
            IF e.critical THEN "" ELSE "KeyUsage extension must be critical."
      [] e.kind = "SubjectKeyIdentifier" ->
            IF e.critical THEN "SubjectKeyIdentifier cannot be critical" ELSE ""
      [] OTHER -> "Unexpected extension or unparsed extension encountered."

\* check_self_signed_client_cert: the flags its arms set.
SelfSignedFlags == {"key_usage", "certificate_policies"}

\* check_self_signed_client_cert: the checks after the loop.
SelfSignedEndResult(f) ==
    IF ~f.key_usage THEN "KeyUsage extension not present."
    ELSE IF ~f.certificate_policies THEN "CertificatePolicies extension not present."
    ELSE "Ok"

\* check_ca with a KeyUsage arm that does not ask for crlSign.
CaArmNoCrlSign(e) ==
    CASE e.kind = "CertificatePolicies" ->
            IF e.critical THEN "" ELSE "CertificatePolicies extension must be critical."
      [] e.kind = "KeyUsage" ->
            IF e.critical /\ e.key_cert_sign THEN ""
            ELSE "KeyUsage extension must be critical and keyCertSign and crlSign must be true."
      [] e.kind = "BasicConstraints" ->
            IF e.critical /\ e.path_len_constraint = None /\ e.ca THEN ""
            ELSE "BasicConstraints must be critical, cA must be true, and pathLen must be absent."
      [] e.kind = "SubjectKeyIdentifier" ->
            IF e.critical THEN "SubjectKeyIdentifier cannot be critical" ELSE ""
      [] OTHER -> "Unexpected extension or unparsed extension encountered."

\* check_ca: the match on ext.parsed_extension().
CaArm(e) ==
    CASE e.kind = "CertificatePolicies" ->
            IF e.critical THEN "" ELSE "CertificatePolicies extension must be critical."
      [] e.kind = "KeyUsage" ->
            IF e.critical /\ e.crl_sign /\ e.key_cert_sign THEN ""
            ELSE "KeyUsage extension must be critical and keyCertSign and crlSign must be true."
      [] e.kind = "BasicConstraints" ->
            IF e.critical /\ e.path_len_constraint = None /\ e.ca THEN ""
            ELSE "BasicConstraints must be critical, cA must be true, and pathLen must be absent."
      [] e.kind = "SubjectKeyIdentifier" ->
            IF e.critical THEN "SubjectKeyIdentifier cannot be critical" ELSE ""
      [] OTHER -> "Unexpected extension or unparsed extension encountered."

\* check_ca: the flags its arms set.
CaFlags == {"key_usage", "certificate_policies", "basic_constraints", "ski"}

\* check_ca: the checks after the loop.
CaEndResult(f) ==
    IF ~f.key_usage THEN "KeyUsage extension not present."
    ELSE IF ~f.certificate_policies THEN "CertificatePolicies extension not present."
    ELSE IF ~f.basic_constraints THEN "BasicConstraints extension not present."
    ELSE IF ~f.ski THEN "SubjectKeyIdentifier extension not present."
    ELSE "Ok"

CertChecks == {"check_device_cert", "check_self_signed_client_cert", "check_ca"}

CertInit ==
    /\ cfn = "none"
    /\ cpc = "idle"
    /\ cflags = NoFlags
    /\ cext = NoExt
    /\ seen = {}
    /\ nexts = 0
    /\ exhausted = FALSE
    /\ cresult = "none"

\* One of the checks is called: read the file, parse the PEM and the
\* certificate (an error of any of the three is returned), clear the flags
\* and start on cert.extensions().
CheckStart(fn, parses) ==
    /\ cpc \in {"idle", "done"}
    /\ cfn' = fn
    /\ cpc' = IF parses THEN "loop" ELSE "done"
    /\ cresult' = IF parses THEN "none" ELSE "parse error"
    /\ cflags' = NoFlags
    /\ cext' = NoExt
    /\ seen' = {}
    /\ nexts' = 0
    /\ exhausted' = FALSE
    /\ UNCHANGED nonCertVars

\* One turn of `for ext in exts` with the match `arm` and the flags `names`:
\* the next extension of the certificate is e.
LoopBody(e, arm, names) ==
    /\ cpc = "loop"
    /\ nexts < MaxExts
    /\ cext' = e
    /\ seen' = seen \cup {e}
    /\ nexts' = nexts + 1
    /\ IF arm = ""
       THEN /\ cflags' = SetFlags(cflags, names, e)
            /\ UNCHANGED <<cpc, cresult>>
       ELSE /\ cpc' = "done"
            /\ cresult' = arm
            /\ UNCHANGED cflags
    /\ UNCHANGED <<cfn, exhausted>>
    /\ UNCHANGED nonCertVars

\* The certificate has no further extension: the checks after the loop.
LoopEnd(res) ==
    /\ cpc = "loop"
    /\ cpc' = "done"
    /\ exhausted' = TRUE
    /\ cresult' = res
    /\ UNCHANGED <<cfn, cflags, cext, seen, nexts>>
    /\ UNCHANGED nonCertVars

DeviceExt(e) == cfn = "check_device_cert" /\ LoopBody(e, DeviceArm(e), DeviceFlags)

DeviceEnd == cfn = "check_device_cert" /\ LoopEnd(DeviceEndResult(cflags))

SelfSignedExt(e) ==
    cfn = "check_self_signed_client_cert" /\ LoopBody(e, SelfSignedArm(e), SelfSignedFlags)

SelfSignedEnd ==
    cfn = "check_self_signed_client_cert" /\ LoopEnd(SelfSignedEndResult(cflags))

CaExt(e) == cfn = "check_ca" /\ LoopBody(e, CaArm(e), CaFlags)

CaEnd == cfn = "check_ca" /\ LoopEnd(CaEndResult(cflags))

CertStep ==
    \/ \E fn \in CertChecks, parses \in BOOLEAN : CheckStart(fn, parses)
    \/ \E e \in Exts : DeviceExt(e)
    \/ DeviceEnd
    \/ \E e \in Exts : SelfSignedExt(e)
    \/ SelfSignedEnd
    \/ \E e \in Exts : CaExt(e)
    \/ CaEnd

(***************************************************************************)
(* The TLS configurations (tls.rs): create_client_tls_cfg and              *)
(* create_server_tls_config, one action per call on the builder.           *)
(***************************************************************************)
\* The protocol versions of OpenSSL, oldest first.
ProtoVersions == <<"TLS1", "TLS1_1", "TLS1_2", "TLS1_3">>
Rank(v) == CHOOSE i \in 1..Len(ProtoVersions) : ProtoVersions[i] = v

\* Cipher suites: the two the code names, and one to stand for the rest of
\* the lists OpenSSL and the Mozilla profile start from.
CCM8 == "ECDHE-ECDSA-AES128-CCM8"
GCM == "ECDHE-ECDSA-AES128-GCM-SHA256"
OtherSuite == "ECDHE-RSA-AES128-GCM-SHA256"

\* The targets the code distinguishes with cfg!(target_os = "macos").
TlsHosts == {"linux", "macos"}

\* "MacOS doesn't support the CCM8 cipher suite"
SuiteAvailable(host, suite) == suite = CCM8 => host # "macos"

\* get_cipher_suite(): the cipher string, as suite and @SECLEVEL directive.
get_cipher_suite(host) ==
    IF host = "macos"
    THEN [suite |-> GCM, seclevel |-> Some(0)]
    ELSE [suite |-> CCM8, seclevel |-> None]

\* The cipher string create_server_tls_config passes, whatever the target.
ServerCipherString == [suite |-> CCM8, seclevel |-> None]

\* The state of an SslContextBuilder the claim is about: the protocol window,
\* the option that turns TLS 1.3 off, the cipher list for TLS 1.2 and below,
\* the security level, the files loaded and the verify mode.
\* SslConnector::builder(SslMethod::tls_client()): OpenSSL's defaults.
ConnectorDefaults ==
    [min |-> None, max |-> None, no_tls13 |-> FALSE,
     ciphers |-> {CCM8, GCM, OtherSuite}, security_level |-> 1,
     loaded |-> {}, verify |-> {"PEER"}]

\* SslAcceptor::mozilla_intermediate(SslMethod::tls_server()): the profile
\* sets its cipher list and turns TLS 1.3 off; it sets no protocol window.
MozillaIntermediate ==
    [min |-> None, max |-> None, no_tls13 |-> TRUE,
     ciphers |-> {GCM, OtherSuite}, security_level |-> 1,
     loaded |-> {}, verify |-> {}]

NoConfig ==
    [min |-> None, max |-> None, no_tls13 |-> FALSE, ciphers |-> {},
     security_level |-> 0, loaded |-> {}, verify |-> {}]

\* The protocol versions a configuration lets a handshake negotiate.
EnabledVersions(cfg) ==
    {ProtoVersions[i] : i \in
        {j \in 1..Len(ProtoVersions) :
            /\ cfg.min = None \/ Rank(cfg.min[1]) <= j
            /\ cfg.max = None \/ j <= Rank(cfg.max[1])
            /\ ProtoVersions[j] = "TLS1_3" => ~cfg.no_tls13}}

\* The paths given to a builder, by whether OpenSSL can load the file.
TlsFiles == [cert : BOOLEAN, pk : BOOLEAN, ca : BOOLEAN]

\* The calls of create_client_tls_cfg, in order.
ClientSteps ==
    <<"builder", "set_security_level", "set_min_proto_version",
      "set_max_proto_version", "set_options", "set_cipher_list",
      "set_certificate_file", "set_private_key_file", "set_ca_file",
      "set_verify", "return">>

\* The calls of create_server_tls_config, in order.
ServerSteps ==
    <<"mozilla_intermediate", "set_cipher_list", "set_certificate_file",
      "set_private_key_file", "set_ca_file", "set_verify", "return">>

StepsOf(fn) == IF fn = "create_client_tls_cfg" THEN ClientSteps ELSE ServerSteps

TlsInit ==
    /\ tfn = "none"
    /\ tpc = 0
    /\ thost = "linux"
    /\ tfiles = [cert |-> TRUE, pk |-> TRUE, ca |-> TRUE]
    /\ tcfg = NoConfig
    /\ tres = "none"

\* The step the builder is at.
AtStep(fn, name) ==
    /\ tfn = fn
    /\ tres = "none"
    /\ tpc \in 1..Len(StepsOf(fn))
    /\ StepsOf(fn)[tpc] = name

\* The call at this step returns: on Ok go on with the configuration it
\* leaves, on Err (`?`) return the error.
StepTo(ok, cfg) ==
    /\ IF ok
       THEN /\ tpc' = tpc + 1
            /\ tcfg' = cfg
            /\ UNCHANGED tres
       ELSE /\ tres' = "Err"
            /\ UNCHANGED <<tpc, tcfg>>
    /\ UNCHANGED <<tfn, thost, tfiles>>
    /\ UNCHANGED nonTlsVars

\* A builder is called on some host with some files.
TlsStart(fn, host, files) ==
    /\ tres # "none" \/ tfn = "none"
    /\ tfn' = fn
    /\ tpc' = 1
    /\ thost' = host
    /\ tfiles' = files
    /\ tcfg' = NoConfig
    /\ tres' = "none"
    /\ UNCHANGED nonTlsVars

\* SslConnector::builder(SslMethod::tls_client())?
ClientBuilder(ok) ==
    /\ AtStep("create_client_tls_cfg", "builder")
    /\ StepTo(ok, ConnectorDefaults)

\* builder.set_security_level(0)
ClientSecurityLevel ==
    /\ AtStep("create_client_tls_cfg", "set_security_level")
    /\ StepTo(TRUE, [tcfg EXCEPT !.security_level = 0])

\* builder.set_min_proto_version(Some(SslVersion::TLS1_2))?
ClientMinProto(ok) ==
    /\ AtStep("create_client_tls_cfg", "set_min_proto_version")
    /\ StepTo(ok, [tcfg EXCEPT !.min = Some("TLS1_2")])

\* builder.set_max_proto_version(Some(SslVersion::TLS1_2))?
ClientMaxProto(ok) ==
    /\ AtStep("create_client_tls_cfg", "set_max_proto_version")
    /\ StepTo(ok, [tcfg EXCEPT !.max = Some("TLS1_2")])

\* builder.set_options(NO_COMPRESSION | NO_SSLV2 | NO_SSLV3)
ClientOptions ==
    /\ AtStep("create_client_tls_cfg", "set_options")
    /\ StepTo(TRUE, tcfg)

\* set_cipher_list(str): the list becomes the suites the string selects, and
\* the call fails when the host has none of them; @SECLEVEL sets the level.
SetCipherList(cs) ==
    StepTo(SuiteAvailable(thost, cs.suite),
           [tcfg EXCEPT !.ciphers = {cs.suite},
                        !.security_level = IF cs.seclevel = None THEN @ ELSE cs.seclevel[1]])

\* builder.set_cipher_list(get_cipher_suite())?
ClientCipherList ==
    /\ AtStep("create_client_tls_cfg", "set_cipher_list")
    /\ SetCipherList(get_cipher_suite(thost))

\* builder.set_certificate_file / set_private_key_file / set_ca_file (..)?
LoadFile(name, ok) == StepTo(ok, [tcfg EXCEPT !.loaded = @ \cup {name}])

ClientLoadCert ==
    /\ AtStep("create_client_tls_cfg", "set_certificate_file")
    /\ LoadFile("set_certificate_file", tfiles.cert)

ClientLoadKey ==
    /\ AtStep("create_client_tls_cfg", "set_private_key_file")
    /\ LoadFile("set_private_key_file", tfiles.pk)

ClientLoadCa ==
    /\ AtStep("create_client_tls_cfg", "set_ca_file")
    /\ LoadFile("set_ca_file", tfiles.ca)

\* builder.set_verify(SslVerifyMode::PEER)
ClientVerify ==
    /\ AtStep("create_client_tls_cfg", "set_verify")
    /\ StepTo(TRUE, [tcfg EXCEPT !.verify = {"PEER"}])

\* Ok(builder)
TlsReturn(fn) ==
    /\ AtStep(fn, "return")
    /\ tres' = "Ok"
    /\ UNCHANGED <<tfn, tpc, thost, tfiles, tcfg>>
    /\ UNCHANGED nonTlsVars

\* SslAcceptor::mozilla_intermediate(SslMethod::tls_server())?
ServerBuilder(ok) ==
    /\ AtStep("create_server_tls_config", "mozilla_intermediate")
    /\ StepTo(ok, MozillaIntermediate)

\* builder.set_cipher_list("ECDHE-ECDSA-AES128-CCM8")?
ServerCipherList ==
    /\ AtStep("create_server_tls_config", "set_cipher_list")
    /\ SetCipherList(ServerCipherString)

ServerLoadCert ==
    /\ AtStep("create_server_tls_config", "set_certificate_file")
    /\ LoadFile("set_certificate_file", tfiles.cert)

ServerLoadKey ==
    /\ AtStep("create_server_tls_config", "set_private_key_file")
    /\ LoadFile("set_private_key_file", tfiles.pk)

ServerLoadCa ==
    /\ AtStep("create_server_tls_config", "set_ca_file")
    /\ LoadFile("set_ca_file", tfiles.ca)

\* builder.set_verify(FAIL_IF_NO_PEER_CERT | PEER)
ServerVerify ==
    /\ AtStep("create_server_tls_config", "set_verify")
    /\ StepTo(TRUE, [tcfg EXCEPT !.verify = {"FAIL_IF_NO_PEER_CERT", "PEER"}])

(***************************************************************************)
(* time.rs: the global time offset.                                        *)
(***************************************************************************)
\* i64, with IntBits bits in place of 64: two's complement.
MinInt == -(2 ^ (IntBits - 1))
MaxInt == (2 ^ (IntBits - 1)) - 1
InRange(x) == MinInt <= x /\ x <= MaxInt

\* The result of an i64 operation that overflowed, in a build without
\* overflow checks: the low IntBits bits.
Wrap(x) == ((x - MinInt) % (2 ^ IntBits)) + MinInt

\* time.current_time of the Time resource a server sent (Int64): the extreme
\* values, zero and its neighbours.
TimeValues == {MinInt, -1, 0, 1, MaxInt}

\* Threads of the host that call update_time_offset.
Updaters == 1..MaxUpdaters

\* What an operation on integers gives: a value, or a panic of the calling
\* thread.
Val(x) == [panic |-> FALSE, v |-> x]
Panic == [panic |-> TRUE, v |-> 0]

\* `time.current_time.get() - i64::from(current_time())`: the i64
\* subtraction panics on overflow in a build with overflow checks (debug) and
\* wraps in one without (release).
OffsetOf(T, n, checks) ==
    IF InRange(T - n) THEN Val(T - n)
    ELSE IF checks THEN Panic
    ELSE Val(Wrap(T - n))

\* i64::abs: panics on i64::MIN with overflow checks, else returns i64::MIN.
Abs(rhs, checks) ==
    IF rhs = MinInt THEN (IF checks THEN Panic ELSE Val(MinInt))
    ELSE IF rhs < 0 THEN Val(-rhs) ELSE Val(rhs)

\* `x as u64` of an i64.
AsU64(x) == IF x < 0 THEN x + (2 ^ IntBits) ELSE x

\* SystemTime += Duration and -= Duration: the seconds are an i64 (timespec),
\* the operators panic when checked_add / checked_sub returns None.
SystemTimeAdd(secs, dur) == IF InRange(secs + dur) THEN Val(secs + dur) ELSE Panic
SystemTimeSub(secs, dur) == IF InRange(secs - dur) THEN Val(secs - dur) ELSE Panic

\* impl Add<i64> for SEPTime, on the seconds of self.inner.
Add64(secs, rhs, checks) ==
    LET a == Abs(rhs, checks) IN
    IF a.panic THEN Panic
    ELSE IF rhs > 0 THEN SystemTimeAdd(secs, AsU64(a.v))
    ELSE SystemTimeSub(secs, AsU64(a.v))

\* No call of update_time_offset by the thread, and no call of
\* current_time_with_offset, yet.
NoUpdate == [pc |-> "idle", T |-> 0, n |-> 0, offset |-> 0]
NoRead == [done |-> FALSE, m |-> 0, offset |-> 0, by |-> 0, result |-> Val(0)]

\* static TIME_OFFSET: AtomicI64 = AtomicI64::new(0), the system clock, the
\* build, and the calls made.
TimeInit ==
    tm \in [TIME_OFFSET : {0}, sys : {0}, overflow_checks : BOOLEAN,
            upd : {[u \in Updaters |-> NoUpdate]}, last : {0}, rd : {NoRead}]

\* The system clock moves on to the next second.
TimeTick ==
    /\ tm.sys < MaxSys
    /\ tm' = [tm EXCEPT !.sys = @ + 1]
    /\ UNCHANGED nonTimeVars

\* update_time_offset(time), first statement: read the clock and compute the
\* offset.
UpdateCompute(u, T) ==
    /\ tm.upd[u].pc = "idle"
    /\ LET off == OffsetOf(T, tm.sys, tm.overflow_checks) IN
       tm' = [tm EXCEPT !.upd[u] =
                 [pc |-> IF off.panic THEN "panicked" ELSE "store",
                  T |-> T, n |-> tm.sys, offset |-> off.v]]
    /\ UNCHANGED nonTimeVars

\* update_time_offset, second statement: TIME_OFFSET.store(offset, Relaxed).
UpdateStore(u) ==
    /\ tm.upd[u].pc = "store"
    /\ tm' = [tm EXCEPT !.TIME_OFFSET = tm.upd[u].offset,
                        !.last = u,
                        !.upd[u].pc = "stored"]
    /\ UNCHANGED nonTimeVars

\* current_time_with_offset(): current_time() + TIME_OFFSET.load(Relaxed).
CurrentTimeWithOffset ==
    /\ tm' = [tm EXCEPT !.rd =
                 [done |-> TRUE, m |-> tm.sys, offset |-> tm.TIME_OFFSET,
                  by |-> tm.last,
                  result |-> Add64(tm.sys, tm.TIME_OFFSET, tm.overflow_checks)]]
    /\ UNCHANGED nonTimeVars

TimeStep ==
    \/ TimeTick
    \/ \E u \in Updaters, T \in TimeValues : UpdateCompute(u, T)
    \/ \E u \in Updaters : UpdateStore(u)
    \/ CurrentTimeWithOffset

TlsStep ==
    \/ \E fn \in {"create_client_tls_cfg", "create_server_tls_config"},
          host \in TlsHosts, files \in TlsFiles : TlsStart(fn, host, files)
    \/ \E ok \in BOOLEAN : ClientBuilder(ok)
    \/ ClientSecurityLevel
    \/ \E ok \in BOOLEAN : ClientMinProto(ok)
    \/ \E ok \in BOOLEAN : ClientMaxProto(ok)
    \/ ClientOptions
    \/ ClientCipherList
    \/ ClientLoadCert
    \/ ClientLoadKey
    \/ ClientLoadCa
    \/ ClientVerify
    \/ \E ok \in BOOLEAN : ServerBuilder(ok)
    \/ ServerCipherList
    \/ ServerLoadCert
    \/ ServerLoadKey
    \/ ServerLoadCa
    \/ ServerVerify
    \/ \E fn \in {"create_client_tls_cfg", "create_server_tls_config"} : TlsReturn(fn)

ServerStep ==
    \/ \E ok \in BOOLEAN : Bind(ok)
    \/ ShutdownCompletes
    \/ SelectShutdown
    \/ \E k \in Conns : AcceptOk(k)
    \/ AcceptErr
    \/ \E ok \in BOOLEAN : SessionSetup(ok)
    \/ \E ok \in BOOLEAN : Handshake(ok)
    \/ \E k \in Conns, ok \in BOOLEAN : ConnServed(k, ok)
    \/ SetShutdown
    \/ \E k \in Conns : TaskAborted(k)
    \/ ReturnOk

\* The operations on Clients and the steps of the poll tasks that do not depend
\* on the clock.
PollStep ==
    \/ \E c \in Clients : CloneClient(c)
    \/ \E c \in Clients : DropClient(c)
    \/ \E c \in Clients, t \in Tasks, r \in Rates : StartPoll(c, t, r)
    \/ \E c \in Clients : ForcePoll(c)
    \/ \E c \in Clients : CancelPolls(c)
    \/ \E t \in Tasks : Recv(t)
    \/ \E t \in Tasks, resp \in Responses : GetDone(t, resp)
    \/ \E t \in Tasks : MatchRes(t)
    \/ \E t \in Tasks : CallbackDone(t)

\* The poll scheduler with timers that may fire at any moment of a wait.
NextPoll ==
    \/ PollStep
    \/ \E t \in Tasks : SleepDone(t)

\* The poll scheduler under the clock.
NextPollTimed ==
    \/ PollStep
    \/ Tick
    \/ \E t \in Tasks : TimerFire(t)

\* The notification server.
NextServer == ServerStep

\* The HTTP operations of Client and the conversion of SepResponse.
NextHttp == HttpStep

\* The routes and the requests of the notification server.
NextRouter == RouterStep

\* The certificate checks.
NextCert == CertStep

\* The builders of the TLS configurations.
NextTls == TlsStep

\* The global time offset.
NextTime == TimeStep

\* The value of a variable of a part of the library that the run does not use.
Unused == "unused"

\* No Client is constructed: the variables of that part hold no state.
PollUnused ==
    /\ now = Unused
    /\ handles = Unused
    /\ tail = Unused
    /\ slot = Unused
    /\ pc = Unused
    /\ tchan = Unused
    /\ rate = Unused
    /\ next = Unused
    /\ waitStart = Unused
    /\ wake = Unused
    /\ cancelled = Unused
    /\ forcePending = Unused
    /\ calledOn = Unused

\* No ClientNotifServer is run: the variables of that part hold no state.
ServerUnused ==
    /\ runpc = Unused
    /\ shutdown = Unused
    /\ stream = Unused
    /\ conn = Unused
    /\ acceptFailed = Unused
    /\ result = Unused

\* No Client operation is called: the variables of that part hold no state.
HttpUnused ==
    /\ hop = Unused
    /\ harg = Unused
    /\ hres = Unused

\* No Router is constructed: the variables of that part hold no state.
RouterUnused ==
    /\ routes = Unused
    /\ htype = Unused
    /\ adds = Unused
    /\ listening = Unused
    /\ rpc = Unused
    /\ rreq = Unused
    /\ lock = Unused
    /\ rresp = Unused
    /\ handled = Unused
    /\ called = Unused

\* No certificate check is called: the variables of that part hold no state.
CertUnused ==
    /\ cfn = Unused
    /\ cpc = Unused
    /\ cflags = Unused
    /\ cext = Unused
    /\ seen = Unused
    /\ nexts = Unused
    /\ exhausted = Unused
    /\ cresult = Unused

\* No TLS configuration is built: the variables of that part hold no state.
TlsUnused ==
    /\ tfn = Unused
    /\ tpc = Unused
    /\ thost = Unused
    /\ tfiles = Unused
    /\ tcfg = Unused
    /\ tres = Unused

\* update_time_offset and current_time_with_offset are not called: the
\* variable of that part holds no state.
TimeUnused ==
    /\ tm = Unused

\* The initial states: the part the specification runs is constructed, the
\* other parts are not used.
InitPoll ==
    PollInit /\ ServerUnused /\ HttpUnused
    /\ RouterUnused /\ CertUnused /\ TlsUnused /\ TimeUnused

InitServer ==
    PollUnused /\ ServerInit /\ HttpUnused
    /\ RouterUnused /\ CertUnused /\ TlsUnused /\ TimeUnused

InitHttp ==
    PollUnused /\ ServerUnused /\ HttpInit
    /\ RouterUnused /\ CertUnused /\ TlsUnused /\ TimeUnused

InitRouter ==
    PollUnused /\ ServerUnused /\ HttpUnused
    /\ RouterInit /\ CertUnused /\ TlsUnused /\ TimeUnused

InitCert ==
    PollUnused /\ ServerUnused /\ HttpUnused
    /\ RouterUnused /\ CertInit /\ TlsUnused /\ TimeUnused

InitTls ==
    PollUnused /\ ServerUnused /\ HttpUnused
    /\ RouterUnused /\ CertUnused /\ TlsInit /\ TimeUnused

InitTime ==
    PollUnused /\ ServerUnused /\ HttpUnused
    /\ RouterUnused /\ CertUnused /\ TlsUnused /\ TimeInit

vars == <<pollVars, serverVars, httpVars, routerVars, certVars, tlsVars, timeVars>>

SpecPoll == InitPoll /\ [][NextPoll]_vars

SpecPollTimed == InitPoll /\ [][NextPollTimed]_vars

SpecServer == InitServer /\ [][NextServer]_vars

SpecHttp == InitHttp /\ [][NextHttp]_vars

SpecRouter == InitRouter /\ [][NextRouter]_vars

SpecCert == InitCert /\ [][NextCert]_vars

SpecTls == InitTls /\ [][NextTls]_vars

SpecTime == InitTime /\ [][NextTime]_vars

\* What the executor guarantees a poll task: an await that can complete does
\* (GETs and callbacks terminate), and select!, which polls its branches in
\* random order, does not pass over a ready rx.recv() for ever.
PollFairness ==
    \A t \in Tasks :
        /\ WF_pollVars(\E resp \in Responses : GetDone(t, resp))
        /\ WF_pollVars(MatchRes(t))
        /\ WF_pollVars(CallbackDone(t))
        /\ SF_pollVars(Recv(t))

FairSpecPoll == SpecPoll /\ PollFairness

\* The poll task whose GET or callback may take for ever: the task spawned
\* first.
SlowTask == 1
OtherTasks == Tasks \ {SlowTask}

\* Each poll task is a task of its own on the runtime (tokio::task::spawn):
\* the runtime keeps running the other tasks, and their sleeps complete,
\* while nothing is assumed of the GET and the callback of the slow task.
OthersFairness ==
    \A t \in OtherTasks :
        /\ WF_pollVars(\E resp \in Responses : GetDone(t, resp))
        /\ WF_pollVars(MatchRes(t))
        /\ WF_pollVars(CallbackDone(t))
        /\ WF_pollVars(SleepDone(t))
        /\ SF_pollVars(Recv(t))

FairSpecPollOthers == SpecPoll /\ OthersFairness

(***************************************************************************)
(* Properties of the poll scheduler.                                       *)
(***************************************************************************)
\* The callback of task t is invoked in this step.
CallbackInvoked(t) == pc[t] # "callback" /\ pc'[t] = "callback"

\* Task t ends in this step.
Terminates(t) == pc[t] # "done" /\ pc'[t] = "done"

\* Task t issues a GET in this step.
IssuesGet(t) == pc[t] # "get" /\ pc'[t] = "get"

\* C1: once cancel_polls has returned, no callback of a poll task that was
\* registered on that Client before the call is invoked any more.
C1_NoCallbackAfterCancel ==
    [][\A t \in Tasks : cancelled[t] => ~CallbackInvoked(t)]_vars

\* C2: a poll task terminates only when it was sent Cancel or its channel is
\* closed; force_poll calls, however many, never end it.
C2_OnlyCancelTerminates ==
    [][\A t \in Tasks : Terminates(t) => cancelled[t] \/ Closed(tchan[t])]_vars

\* C3: after force_poll, every poll task registered on that Client goes on to
\* issue a GET for it (unless Cancel is sent): as long as it has a ForceRun to
\* act on, the task is still running.
C3_ForcedTaskStillPolls ==
    \A t \in Tasks : (forcePending[t] /\ ~cancelled[t]) => Live(t)

\* C4: after cancel_polls, every poll task that was subscribed at the call
\* eventually terminates, whatever force_poll or cancel_polls calls follow.
C4_CancelledTerminates == \A t \in Tasks : cancelled[t] ~> (pc[t] = "done")

\* A task that had a Cancel and a ForceRun sent to it and has terminated.
C4_Witness ==
    \E t \in Tasks : cancelled[t] /\ forcePending[t] /\ pc[t] = "done"

\* C5: when the host has dropped every handle of a Client, the channel of that
\* Client is closed (so that its poll tasks end by observing the closure).
C5_DroppedClientClosesChannel ==
    \A c \in Clients : handles[c] = 0 => Closed(c)

\* C6: a GET that fails (transport error, status other than 200, body that does
\* not deserialize) leads back to the wait without a callback and without
\* ending the task; a GET that succeeds leads to exactly one callback, and
\* nothing else invokes the callback.
C6_CallbackOnlyOnSuccess ==
    [][\A t \in Tasks :
        /\ \A resp \in Responses :
              GetDone(t, resp) =>
                  (pc'[t] = "gotErr"
                      <=> (resp.transport \/ resp.status # 200 \/ ~resp.decodes))
        /\ (pc[t] = "get" /\ pc'[t] # "get") => pc'[t] \in {"gotOk", "gotErr"}
        /\ (pc[t] = "gotErr" /\ pc'[t] # "gotErr") => pc'[t] = "wait"
        /\ (pc[t] = "gotOk" /\ pc'[t] # "gotOk") => pc'[t] = "callback"
        /\ CallbackInvoked(t) => pc[t] = "gotOk"
      ]_vars

\* A task whose GET has failed and that is on its way back to the wait.
C6_Witness == \E t \in Tasks : pc[t] = "gotErr"

\* C7: a task of a Client on which force_poll and cancel_polls were never
\* called has nothing to receive, was not woken by a ForceRun and has not
\* terminated, whatever was called on other Clients; a task of the Client that
\* was called, through whichever handle, has the message waiting until it
\* takes it.
C7_OnlyOwnClientReached ==
    \A t \in Tasks :
        /\ (tchan[t] # 0 /\ ~calledOn[tchan[t]]) =>
              /\ pc[t] # "done"
              /\ wake[t] # "force"
              /\ next[t] = tail[tchan[t]]
        /\ (Live(t) /\ (forcePending[t] \/ cancelled[t])) =>
              next[t] < tail[tchan[t]]

\* One Client with two handles was cancelled and its task has ended, while
\* the task of the other Client is in an iteration its timer started.
C7_Witness ==
    \E t1, t2 \in Tasks :
        /\ tchan[t1] # 0 /\ tchan[t2] # 0 /\ tchan[t1] # tchan[t2]
        /\ handles[tchan[t1]] = 2
        /\ cancelled[t1] /\ pc[t1] = "done"
        /\ ~calledOn[tchan[t2]] /\ pc[t2] = "callback" /\ wake[t2] = "timer"

\* C8: force_poll or cancel_polls on a Client without a subscribed poll task
\* changes neither the channel nor any task, and a task is woken by a ForceRun
\* or ended only by a call made while it was registered.
C8_SendWithoutSubscriberIsDropped ==
    [][/\ \A c \in Clients :
            ((ForcePoll(c) \/ CancelPolls(c)) /\ RxCnt(c) = 0) =>
                UNCHANGED <<chanVars, taskVars, cancelled, forcePending>>
       /\ \A t \in Tasks :
            /\ Terminates(t) => cancelled[t] \/ forcePending[t]
            /\ (IssuesGet(t) /\ wake'[t] = "force") => forcePending[t]
      ]_vars

\* A task registered after calls that found no subscriber, polling on.
C8_Witness ==
    \E t \in Tasks :
        /\ pc[t] = "callback"
        /\ calledOn[tchan[t]]
        /\ tail[tchan[t]] = 0

\* C9: a GET that the timer triggered is issued no earlier than the rate of the
\* poll, 900 s when start_poll was given None, after the wait of that
\* iteration began (for the first iteration: after start_poll).
C9_TimerNotEarly ==
    [][\A t \in Tasks :
        (IssuesGet(t) /\ wake'[t] = "timer") =>
            now >= waitStart[t] + (IF rate[t] = <<>> THEN 900 ELSE rate[t][1])
      ]_vars

\* The first GET of a poll started at 0 with no rate, issued at 900.
C9_Witness ==
    \E t \in Tasks :
        /\ rate[t] = None /\ waitStart[t] = 0 /\ now = 900
        /\ pc[t] = "get" /\ wake[t] = "timer"

(***************************************************************************)
(* Properties of the notification server.                                  *)
(***************************************************************************)
\* run is in its accept loop.
InLoop == runpc \in {"accept", "session", "handshake"}

\* C10: run returns an error only at start-up (bind, acceptor), and once the
\* accept loop runs nothing but the shutdown future makes run leave it.
C10_RunFailsOnlyAtStartup ==
    [][/\ (result' = "Err" /\ result # "Err") => runpc = "bind"
       /\ (InLoop /\ ~InLoop') => (shutdown /\ runpc' = "shutdown")
      ]_vars

\* C11: when run returns after having entered its accept loop, it returns
\* success and none of the per-connection tasks it spawned is still running
\* (they were aborted and awaited).
C11_ReturnsCleanly ==
    [][(runpc \notin {"bind", "returned"} /\ runpc' = "returned") =>
          /\ result' = "Ok"
          /\ \A k \in Conns : conn'[k] \notin {"serving", "aborting"}
      ]_vars

(***************************************************************************)
(* Properties of the HTTP operations and of SepResponse.                   *)
(***************************************************************************)
\* The Location header of the response is there and is visible ASCII.
AsciiLocation(o) ==
    /\ o.location # <<>>
    /\ \A i \in 1..Len(o.location[1]) : o.location[1][i] = "a"

\* What put and post return on 201 without Location, 204, 400, 404 and any
\* status other than 201, 204, 400, 404; and that they differ in the method
\* sent only.
PutPostOtherStatuses ==
    /\ (harg.status = 201 /\ harg.location = <<>>) =>
          (~hres.ok /\ hres.err = "201 Created - Missing Location Header")
    /\ harg.status = 204 => (hres.ok /\ hres.value = NoContent)
    /\ harg.status = 400 => (~hres.ok /\ hres.err = "400 Bad Request")
    /\ harg.status = 404 => (~hres.ok /\ hres.err = "404 Not Found")
    /\ harg.status \notin {201, 204, 400, 404} =>
          (~hres.ok /\ hres.err = "Unexpected HTTP response from server")
    /\ hres.sent = (IF hop = "put" THEN "PUT" ELSE "POST")
    /\ [put(harg) EXCEPT !.sent = "-"] = [post(harg) EXCEPT !.sent = "-"]

\* C14, as stated: for every response to put or post, 201 with a Location
\* header yields Ok(Created(location)); 201 without it the missing-header
\* error; 204 Ok(NoContent); 400 and 404 their errors; any other status the
\* unexpected-response error; put and post differ in the method only.
C14_PutPostStatusMapping ==
    (hop \in {"put", "post"} /\ harg.pre = "ok") =>
        /\ (harg.status = 201 /\ harg.location # <<>>) =>
              (hres.ok /\ hres.value = Created(harg.location[1]))
        /\ PutPostOtherStatuses

\* C14, amended: 201 yields Ok(Created(location)) when the Location header is
\* visible ASCII, and an error when the header is there but is not; the other
\* statuses as stated.
C14_PutPostStatusMappingAscii ==
    (hop \in {"put", "post"} /\ harg.pre = "ok") =>
        /\ (harg.status = 201 /\ AsciiLocation(harg)) =>
              (hres.ok /\ hres.value = Created(harg.location[1]))
        /\ (harg.status = 201 /\ harg.location # <<>> /\ ~AsciiLocation(harg)) =>
              (~hres.ok /\ hres.value = NoValue)
        /\ PutPostOtherStatuses

\* post got 201 with a Location header outside ASCII and returned an error.
C14_Witness ==
    /\ hop = "post"
    /\ harg.pre = "ok" /\ harg.status = 201
    /\ harg.location = <<(<<"U+00E9">>)>>
    /\ ~hres.ok

\* C15: get reads and deserializes the body only on status 200; 404 yields
\* "404 Not Found", any other status the unexpected-response error, without
\* reading the body; a 200 whose body does not deserialize yields an error,
\* never a resource.
C15_GetStatusMapping ==
    (hop = "get" /\ harg.o.pre = "ok") =>
        LET o == harg.o IN
        /\ hres.bodyRead <=> o.status = 200
        /\ o.status = 404 => (~hres.ok /\ hres.err = "404 Not Found")
        /\ o.status \notin {200, 404} =>
              (~hres.ok /\ hres.err = "Unexpected HTTP response from server")
        /\ (o.status = 200 /\ o.body.doc # harg.ty) =>
              (~hres.ok /\ hres.value = "none")
        /\ hres.ok => (o.status = 200 /\ o.bodyOk /\ hres.value = harg.ty)

\* get::<T1> got 200 with a body that is no T1 and returned an error.
C15_Witness ==
    /\ hop = "get"
    /\ harg.ty = "T1"
    /\ harg.o.pre = "ok" /\ harg.o.status = 200 /\ harg.o.bodyOk
    /\ harg.o.body.doc = "T2"
    /\ ~hres.ok /\ hres.bodyRead

\* C16: converting a SepResponse always succeeds, gives the status of the
\* table with Location (Created) or Allow (MethodNotAllowed) set to the
\* carried string and no other header, so that (status, header) reads back
\* as the value; distinct values give distinct responses.
C16_ConversionRoundTrips ==
    hop = "convert" =>
        LET ReadBack ==
                CASE hres.status = 201 /\ \E hv \in Strs : <<"location", hv>> \in hres.headers ->
                        Created((CHOOSE hv \in Strs : <<"location", hv>> \in hres.headers))
                  [] hres.status = 204 -> NoContent
                  [] hres.status = 400 -> BadRequest
                  [] hres.status = 404 -> NotFound
                  [] hres.status = 405 /\ \E hv \in Strs : <<"allow", hv>> \in hres.headers ->
                        MethodNotAllowed((CHOOSE hv \in Strs : <<"allow", hv>> \in hres.headers))
                  [] OTHER -> NoValue
        IN
        /\ ~hres.panic
        /\ hres.status = (CASE harg.tag = "Created" -> 201
                            [] harg.tag = "NoContent" -> 204
                            [] harg.tag = "BadRequest" -> 400
                            [] harg.tag = "NotFound" -> 404
                            [] harg.tag = "MethodNotAllowed" -> 405)
        /\ hres.headers = (CASE harg.tag = "Created" -> {<<"location", harg.arg>>}
                             [] harg.tag = "MethodNotAllowed" -> {<<"allow", harg.arg>>}
                             [] OTHER -> {})
        /\ ReadBack = harg
        /\ \A w \in SepResponses : FromSepResponse(w) = hres => w = harg

(***************************************************************************)
(* Properties of the notification router.                                  *)
(***************************************************************************)
\* A handler is registered for exactly this path.
IsRegistered(path) == path \in DOMAIN routes /\ routes[path] # 0

\* The handler is called for the request of slot r in this step.
HandlerInvoked(r) == handled[r].h = 0 /\ handled'[r].h # 0

\* What the router does with an unknown path (404, no handler) and with a
\* method other than POST on a registered path (405, Allow: POST, no
\* handler); and that a handler is called only for a POST to the path it is
\* registered for, with the body of that request.
RoutesByPathAndMethod(r) ==
    /\ (rpc[r] = "routing" /\ rpc'[r] # "routing") =>
          /\ handled'[r].h = 0
          /\ ~IsRegistered(rreq[r].path) =>
                (rresp'[r] = [panic |-> FALSE, status |-> 404, headers |-> {}])
          /\ (IsRegistered(rreq[r].path) /\ rreq[r].method # "POST") =>
                (rresp'[r] = [panic |-> FALSE, status |-> 405,
                              headers |-> {<<"allow", <<"P", "O", "S", "T">> >>}])
          /\ (IsRegistered(rreq[r].path) /\ rreq[r].method = "POST") =>
                (rresp'[r].status = 0 /\ rpc'[r] = "body")
    /\ HandlerInvoked(r) =>
          /\ IsRegistered(rreq[r].path) /\ rreq[r].method = "POST"
          /\ handled'[r] = [h |-> routes[rreq[r].path], xml |-> rreq[r].body.doc]
    /\ (rreq[r].method # "POST" \/ ~IsRegistered(rreq[r].path)) =>
          (handled[r].h = 0 /\ rpc[r] \in {"routing", "idle"})

\* C12, as stated: an unknown path gets 404 and no handler; a registered path
\* with a method other than POST gets 405 with Allow: POST and no handler; a
\* POST to a registered path has the handler of exactly that path, and no
\* other, called with the body.
C12_RoutesExactly ==
    [][\A r \in Slots :
          /\ RoutesByPathAndMethod(r)
          /\ (rpc[r] = "body" /\ rpc'[r] # "body") => HandlerInvoked(r)
      ]_vars

\* C12, amended: as stated, where the handler is called for a POST whose body
\* was read in full and is valid UTF-8; otherwise no handler is called and the
\* request ends without a response.
C12_RoutesExactlyUtf8 ==
    [][\A r \in Slots :
          /\ RoutesByPathAndMethod(r)
          /\ (ReadBody(r, TRUE) /\ rreq[r].body.utf8) => HandlerInvoked(r)
          /\ (rpc[r] = "body" /\ rpc'[r] # "body" /\ ~HandlerInvoked(r)) =>
                /\ ReadBody(r, FALSE) \/ ~rreq[r].body.utf8
                /\ rpc'[r] = "closed" /\ rresp'[r].status = 0
      ]_vars

\* With different handlers on "/a" and "/b", a POST to "/a" had the handler
\* of "/a" called.
C12_Witness ==
    \E r \in Slots :
        /\ routes["/a"] # 0 /\ routes["/b"] # 0
        /\ rreq[r].path = "/a"
        /\ handled[r].h = routes["/a"]

\* C13: a POST to a registered path whose UTF-8 body does not deserialize as
\* Notification<T> is answered 400 without a call of the callback; no error
\* ends the connection, which can take its next request, and no other
\* connection is touched.
C13_BadBodyIs400 ==
    [][\A r \in Slots :
          /\ (/\ ReadBody(r, TRUE)
              /\ rreq[r].body.utf8
              /\ rreq[r].body.doc # htype[routes[rreq[r].path]]) =>
                /\ ~called'[r]
                /\ rresp'[r] = [panic |-> FALSE, status |-> 400, headers |-> {}]
                /\ rpc'[r] = "idle" /\ listening'
                /\ \A q \in Slots \ {r} : rpc'[q] = rpc[q]
          /\ (~called[r] /\ called'[r]) =>
                rreq[r].body.doc = htype[routes[rreq[r].path]]
      ]_vars

\* A request answered 400 by the handler without a call of the callback, on a
\* connection that is open for its next request.
C13_Witness ==
    \E r \in Slots :
        /\ handled[r].h # 0 /\ ~called[r]
        /\ rresp[r].status = 400
        /\ rpc[r] = "idle"

(***************************************************************************)
(* Properties of the certificate checks.                                   *)
(***************************************************************************)
\* Some extension read is of this variant.
HasExt(kind) == \E e \in seen : e.kind = kind

\* The check `fn` has read the certificate and returned.
Returned(fn) == cfn = fn /\ cpc = "done" /\ cresult # "parse error"

\* What the device certificate profile allows of one extension.
InDeviceProfile(e) ==
    \/ e.kind \in {"KeyUsage", "CertificatePolicies", "SubjectAlternativeName"} /\ e.critical
    \/ e.kind \in {"AuthorityKeyIdentifier", "SubjectKeyIdentifier"} /\ ~e.critical

\* C17: check_device_cert succeeds iff KeyUsage, CertificatePolicies and
\* SubjectAlternativeName are present and critical, AuthorityKeyIdentifier is
\* present and not critical, SubjectKeyIdentifier if present is not critical,
\* and nothing else appears, in whatever order the extensions come. A check
\* that stopped before the end of the list stopped on an extension the profile
\* does not allow.
C17_DeviceCertProfile ==
    Returned("check_device_cert") =>
        IF exhausted
        THEN cresult = "Ok" <=>
                /\ \A e \in seen : InDeviceProfile(e)
                /\ HasExt("KeyUsage") /\ HasExt("CertificatePolicies")
                /\ HasExt("SubjectAlternativeName") /\ HasExt("AuthorityKeyIdentifier")
        ELSE cresult # "Ok" /\ ~InDeviceProfile(cext)

\* A device certificate with all five extensions, KeyUsage last, accepted.
C17_Witness ==
    /\ Returned("check_device_cert")
    /\ cresult = "Ok"
    /\ HasExt("SubjectKeyIdentifier")
    /\ cext.kind = "KeyUsage"

\* What the CA profile allows of one extension.
InCaProfile(e) ==
    \/ e.kind = "KeyUsage" /\ e.critical /\ e.key_cert_sign /\ e.crl_sign
    \/ e.kind = "CertificatePolicies" /\ e.critical
    \/ e.kind = "BasicConstraints" /\ e.critical /\ e.ca /\ e.path_len_constraint = <<>>
    \/ e.kind = "SubjectKeyIdentifier" /\ ~e.critical

\* C18: check_ca succeeds iff KeyUsage is present, critical and asserts
\* keyCertSign and crlSign, CertificatePolicies is present and critical,
\* BasicConstraints is present, critical, with cA true and no pathLen,
\* SubjectKeyIdentifier is present and not critical, and nothing else appears.
C18_CaProfile ==
    Returned("check_ca") =>
        IF exhausted
        THEN cresult = "Ok" <=>
                /\ \A e \in seen : InCaProfile(e)
                /\ HasExt("KeyUsage") /\ HasExt("CertificatePolicies")
                /\ HasExt("BasicConstraints") /\ HasExt("SubjectKeyIdentifier")
        ELSE cresult # "Ok" /\ ~InCaProfile(cext)

\* A CA certificate with its four extensions accepted.
C18_Witness ==
    /\ Returned("check_ca")
    /\ cresult = "Ok"
    /\ nexts = 4

\* What the self-signed client certificate profile allows of one extension.
InSelfSignedProfile(e) ==
    \/ e.kind \in {"KeyUsage", "CertificatePolicies"} /\ e.critical
    \/ e.kind = "SubjectKeyIdentifier" /\ ~e.critical

\* C19: check_self_signed_client_cert succeeds iff KeyUsage and
\* CertificatePolicies are present and critical, SubjectKeyIdentifier if
\* present is not critical, and nothing else appears: any other extension
\* (SubjectAlternativeName, AuthorityKeyIdentifier, BasicConstraints,
\* PolicyMappings, NameConstraints, an unknown one) is an error.
C19_SelfSignedProfile ==
    Returned("check_self_signed_client_cert") =>
        /\ IF exhausted
           THEN cresult = "Ok" <=>
                   /\ \A e \in seen : InSelfSignedProfile(e)
                   /\ HasExt("KeyUsage") /\ HasExt("CertificatePolicies")
           ELSE cresult # "Ok" /\ ~InSelfSignedProfile(cext)
        /\ (\E e \in seen :
               e.kind \in {"SubjectAlternativeName", "AuthorityKeyIdentifier",
                           "BasicConstraints", "PolicyMappings", "NameConstraints",
                           "Other"}) => cresult # "Ok"

\* A self-signed certificate with KeyUsage and CertificatePolicies, rejected
\* for its critical SubjectAlternativeName.
C19_Witness ==
    /\ Returned("check_self_signed_client_cert")
    /\ HasExt("KeyUsage") /\ HasExt("CertificatePolicies")
    /\ cext.kind = "SubjectAlternativeName" /\ cext.critical
    /\ cresult # "Ok"

(***************************************************************************)
(* Properties of the TLS configurations.                                   *)
(***************************************************************************)
\* C20: a configuration a builder returns has TLS 1.2 as minimum and as
\* maximum of its protocol window, so that no other version can be
\* negotiated, and a cipher list of exactly ECDHE-ECDSA-AES128-CCM8 (on a
\* host without CCM8: ECDHE-ECDSA-AES128-GCM-SHA256 at security level 0).
C20_Tls12AndOneCipher ==
    tres = "Ok" =>
        /\ tcfg.min = <<"TLS1_2">> /\ tcfg.max = <<"TLS1_2">>
        /\ EnabledVersions(tcfg) = {"TLS1_2"}
        /\ tcfg.ciphers =
              (IF thost = "macos" THEN {"ECDHE-ECDSA-AES128-GCM-SHA256"}
               ELSE {"ECDHE-ECDSA-AES128-CCM8"})
        /\ thost = "macos" => tcfg.security_level = 0

(***************************************************************************)
(* Properties of the global time offset.                                   *)
(***************************************************************************)
\* The offsets stored so far, with the initial one.
Written == {0} \cup {tm.upd[u].offset : u \in {w \in Updaters : tm.upd[w].pc = "stored"}}

\* C21: update_time_offset(T) at system second n stores T.current_time - n,
\* and a later current_time_with_offset at second m returns m plus the offset
\* of the most recent update, for every i64 value, without overflow or abort;
\* under concurrent updates the offset read is one an update wrote.
C21_OffsetExact ==
    /\ \A u \in Updaters :
          /\ tm.upd[u].pc # "panicked"
          /\ tm.upd[u].pc \in {"store", "stored"} =>
                 tm.upd[u].offset = tm.upd[u].T - tm.upd[u].n
    /\ tm.rd.done =>
          /\ ~tm.rd.result.panic
          /\ tm.rd.result.v = tm.rd.m + tm.rd.offset
          /\ tm.rd.offset \in Written
          /\ tm.rd.by # 0 =>
                 tm.rd.offset = tm.upd[tm.rd.by].T - tm.upd[tm.rd.by].n

(***************************************************************************)
(* Properties of the poll tasks among themselves.                          *)
(***************************************************************************)
\* C22: the iterations of a poll task never overlap: a GET starts only from
\* the wait, the callback only after the GET returned Ok, and the wait of the
\* next iteration only after the callback has completed (or the GET failed).
C22_IterationsSequential ==
    [][\A t \in Tasks :
          /\ (pc'[t] = "get" /\ pc[t] # "get") => pc[t] = "wait"
          /\ (pc'[t] = "callback" /\ pc[t] # "callback") => pc[t] = "gotOk"
          /\ (pc'[t] = "wait" /\ pc[t] # "wait") =>
                 pc[t] \in {"none", "callback", "gotErr"}
          /\ pc[t] = "gotOk" => pc'[t] \in {"gotOk", "callback"}
          /\ pc[t] = "callback" => pc'[t] \in {"callback", "wait"}]_vars

\* A task in its callback while a message sent to it is waiting.
C22_Witness ==
    \E t \in Tasks : pc[t] = "callback" /\ next[t] < tail[tchan[t]]

\* C24: whatever the GET and the callback of one poll task take, every other
\* task leaves each of its waits (to its GET at the latest when its timer
\* expires), takes up a ForceRun sent to it, and ends once Cancel was sent to
\* it.
C24_OthersNotDelayed ==
    \A t \in OtherTasks :
        /\ cancelled[t] ~> (pc[t] = "done")
        /\ forcePending[t] ~> (~forcePending[t] \/ pc[t] = "done")
        /\ (pc[t] = "wait") ~> (pc[t] \in {"get", "done"})

\* The slow task is in its callback, and another task of the same Client has
\* ended on a Cancel.
C24_Witness ==
    \E t \in OtherTasks :
        /\ pc[SlowTask] = "callback"
        /\ tchan[t] = tchan[SlowTask]
        /\ cancelled[t] /\ pc[t] = "done"

(***************************************************************************)
(* Properties of the accept loop during a handshake.                       *)
(***************************************************************************)
\* C25: while the TLS handshake of an accepted connection is in progress, run
\* still takes the shutdown branch once the shutdown future has completed,
\* and still accepts a further connection.
C25_HandshakeDoesNotStall ==
    runpc = "handshake" =>
        /\ shutdown => ENABLED SelectShutdown
        /\ (\E k \in Conns : conn[k] = "none") =>
               ENABLED (\E k \in Conns : AcceptOk(k))

(***************************************************************************)
(* Properties of the router under concurrent requests and of add.          *)
(***************************************************************************)
\* C23: a request that is being served never keeps the request of another
\* connection from being looked up: whatever the other connections are doing,
\* a request that has arrived can be routed at once.
C23_LookupNeverWaits ==
    \A r \in Slots : rpc[r] = "routing" => ENABLED Route(r)

\* C26: add replaces the handler of its path by the new one and leaves the
\* other paths as they are; once run has started the route table does not
\* change; and the handler called for a POST is the one the table holds for
\* the path, the one registered last.
C26_LastAddWins ==
    [][/\ adds' # adds =>
            /\ ~listening
            /\ \E path \in RoutePaths :
                  /\ routes'[path] = adds'
                  /\ \A q \in RoutePaths \ {path} : routes'[q] = routes[q]
       /\ adds' = adds => routes' = routes
       /\ listening => (routes' = routes /\ htype' = htype /\ adds' = adds)
       /\ \A r \in Slots :
             HandlerInvoked(r) => handled'[r].h = routes[rreq[r].path]
      ]_vars

\* Two adds on the same path, and a POST to it that had the second handler
\* called.
C26_Witness ==
    /\ adds = 2 /\ routes["/a"] = 2 /\ routes["/b"] = 0
    /\ \E r \in Slots : handled[r].h = 2 /\ rreq[r].path = "/a"

\* C27: a POST to a registered path whose body is not valid UTF-8 ends the
\* request without a call of the handler or of the callback and without a
\* response; the connection ends with the error, the requests of the other
\* connections stay as they are, and the entry is free for them again.
C27_NonUtf8EndsConnectionOnly ==
    [][\A r \in Slots :
          (rpc[r] = "body" /\ ~rreq[r].body.utf8 /\ rpc'[r] # "body") =>
              /\ rpc'[r] = "closed"
              /\ handled'[r] = NotHandled /\ ~called'[r]
              /\ rresp'[r] = NoResponse
              /\ lock'[ShardOf(rreq[r].path)] = 0
              /\ \A r2 \in Slots \ {r} :
                    /\ rpc'[r2] = rpc[r2] /\ rresp'[r2] = rresp[r2]
                    /\ handled'[r2] = handled[r2]
      ]_vars

\* A connection ended by a body that is not UTF-8, while the request of
\* another connection to the same path is with the callback of the host.
C27_Witness ==
    \E r \in Slots, r2 \in Slots :
        /\ r # r2
        /\ rpc[r] = "closed" /\ ~rreq[r].body.utf8 /\ rresp[r] = NoResponse
        /\ IsRegistered(rreq[r].path) /\ rreq[r].method = "POST"
        /\ rreq[r2].path = rreq[r].path /\ rpc[r2] = "callback"

====
